---------------------------- MODULE Spec2Model ----------------------------
(***************************************************************************)
(* dm-writeboost: the write path, the RAM-staged segment log, the hash     *)
(* index, the flush pipeline and the read-cache staging engine of          *)
(* src/src/dm-writeboost-target.c, as a state machine.                     *)
(*                                                                         *)
(* One action is one stretch of a handler between two points where the     *)
(* handler can block (mutex_lock, wait_event, wait_for_flushing,           *)
(* wait_for_writeback, a remapped bio in flight).  A bitmask (data_bits)   *)
(* is the set of its bit positions; 255 is FullBits.                       *)
(***************************************************************************)
EXTENDS Integers, Sequences, FiniteSets, TLC

(* ------------------------------ bounds --------------------------------- *)
NrThreads == 2
NrKeys == 2
NrSegments == 3
CachesPerSeg == 1
NrReadCacheCells == 2
MaxBios == 3
MaxFcb == 1
MaxFcbReuse == 2
MaxThreshold == 2

(* ------------------------ program constants ---------------------------- *)
NR_RAMBUF_POOL == 2
SectorsPerBlock == 8
\* UINT_MAX (2^32 - 1) is above every seqcount; TLC integers end at 2^31 - 1
UINT_MAX == 2147483647

Sectors == 0 .. (SectorsPerBlock - 1)
FullBits == Sectors
Threads == 1 .. NrThreads
Worker == NrThreads + 1
Fcb == NrThreads + 2
\* writes hold io_lock from lookup to unlock, so one writing thread loses no
\* interleaving of plain writes
Writers == {1}
\* the threads that submit the reads where the writes come from Writers
Readers == Threads \ Writers
Procs == 1 .. (NrThreads + 2)
Keys == {SectorsPerBlock * i : i \in 0 .. (NrKeys - 1)}
nr_caches == NrSegments * CachesPerSeg
nr_caches_inseg == CachesPerSeg
MbIdx == 0 .. (nr_caches - 1)
SegIdx == 0 .. (NrSegments - 1)
RambufIdx == 0 .. (NR_RAMBUF_POOL - 1)
SlotIdx == 0 .. (CachesPerSeg - 1)
CellIdx == 0 .. (NrReadCacheCells - 1)
NULL == 0 - 1
NoSector == 0 - SectorsPerBlock
Junk == 0 - 1
\* ~0 as a sector: ~0 + 8 wraps to 7, which no aligned sector equals
NoLast == 0 - 1
Shapes == {<<0, 8>>, <<0, 4>>, <<7, 1>>}

ReadShapes == {<<0, 8>>, <<7, 1>>}
JunkBlock == [i \in Sectors |-> Junk]
ConstBlock(v) == [i \in Sectors |-> v]
BackingBlock == ConstBlock(0)

(* ----------------------- pure helper functions ------------------------- *)
SUB_ID(x, y) == IF x > y THEN x - y ELSE 0

do_io_offset(sector) == sector % SectorsPerBlock

calc_cache_alignment(bio_sector) == (bio_sector \div SectorsPerBlock) * SectorsPerBlock

io_fullsize(b) == b.count = SectorsPerBlock

to_mask(offset, count) ==
    IF count = 8 THEN FullBits
    ELSE {i + offset : i \in 0 .. (count - 1)} \cap Sectors

memcpy_masked_unprotected(to, protect_bits, from, copy_bits) ==
    [i \in Sectors |-> IF i \in copy_bits THEN from[i] ELSE to[i]]

memcpy_masked(to, protect_bits, from, copy_bits) ==
    [i \in Sectors |-> IF i \in copy_bits /\ i \notin protect_bits
                       THEN from[i] ELSE to[i]]

(* mutant: the scratch buffer is copied whole, copy_bits ignored *)
copy_to_bio_payload_unmasked(payload, offset, count, buf, copy_bits) ==
    [i \in 0 .. (count - 1) |-> buf[i + offset]]

(* payload of a bio: its i-th 512B area, i in 0 .. count-1 *)
copy_to_bio_payload(payload, offset, count, buf, copy_bits) ==
    [i \in 0 .. (count - 1) |->
        IF (i + offset) \in copy_bits THEN buf[i + offset] ELSE payload[i]]

copy_bio_payload(buf, offset, count, payload) ==
    [i \in Sectors |->
        IF i >= offset /\ i < offset + count THEN payload[i - offset] ELSE buf[i]]

mb_idx_inseg(idx) == idx % nr_caches_inseg
mb_to_seg(idx) == idx \div nr_caches_inseg
start_idx(s) == s * nr_caches_inseg
get_segment_header_by_id(id) == (id - 1) % NrSegments
\* mutant: the pool is indexed by id, not id - 1
rambuf_of_id_off_by_one(id) == id % NR_RAMBUF_POOL

rambuf_of_id(id) == (id - 1) % NR_RAMBUF_POOL

(* ------------------------------- state --------------------------------- *)
VARIABLES
    mb,                 \* metablocks: sector, is_dirty, data_bits
    ht,                 \* hash index: key -> chain of metablock indices
    seg,                \* segment headers: id, length, nr_inflight_ios
    current_seg, cursor, current_rambuf,
    rambuf,             \* RAM buffers: hdr, data
    job,                \* the flush job embedded in each RAM buffer
    flusher_wq, last_flushed_id, last_writeback_id, nr_dirty_caches,
    barrier_ios,
    cache_dev, backing,
    io_lock, next_id, fcb_old,
    cells, rb_root, rc_cursor, last_sector, seqcount, over_threshold,
    threshold, ack_count, read_cache_threshold, rc_i, rc_pending,
    write_around_mode,
    pc, bio, res, wio, dirtiness, pbd, result,
    bug, nr_bios, nr_fcb,
    size,               \* cells->size, the nr_read_cache_cells option
    force_drop,         \* wb->force_drop
    drop_pc, drop_r,    \* the caller of the drop_caches message and its result
    g_atwake,           \* ghost: nr_dirty_caches when the caller's wait ended
    g_atreturn,         \* ghost: nr_dirty_caches when the handler returned
    opt,                \* the options the data path does not read
    msg_r,              \* what the last key/value message returned
    g_msg,              \* ghost: the words of the last key/value message
    g_nomem,            \* ghost: the request's scratch allocation failed
    g_content, g_lastbits, g_quiet, g_barseg, g_ackseg, g_readseg,
    g_run,              \* ghost: the current run of consecutive 4 KiB read misses
    g_promoted,         \* ghost: <<sector, batch>> of the cells injected since the run began
    g_batch             \* ghost: number of the read-cache batch being filled

core == <<mb, ht, seg, current_seg, cursor, current_rambuf, rambuf, job,
          flusher_wq, last_flushed_id, last_writeback_id,
          nr_dirty_caches, barrier_ios, cache_dev, backing, io_lock, next_id, fcb_old>>
rcvars == <<cells, rb_root, rc_cursor, last_sector, seqcount, over_threshold,
            threshold, ack_count, read_cache_threshold, rc_i, rc_pending>>
locals == <<pc, bio, res, wio, dirtiness, pbd, result>>
ghost == <<g_content, g_lastbits, g_quiet, g_barseg, g_ackseg, g_readseg>>
msgv == <<opt, msg_r, g_msg>>
ctl == <<size, force_drop, drop_pc, drop_r, g_atwake, g_atreturn, msgv, g_nomem>>
grun == <<g_run, g_promoted, g_batch>>
vars == <<core, rcvars, locals, write_around_mode, bug, nr_bios, nr_fcb, ctl, ghost,
          grun>>

NoBio == [rw |-> "none", sector |-> NoSector, offset |-> 0, count |-> 0,
          val |-> 0, fua |-> FALSE]
NoRes == [found_mb |-> NULL, on_buffer |-> FALSE]
NoWio == [data |-> JunkBlock, data_bits |-> {}]
NoDirtiness == [is_dirty |-> FALSE, data_bits |-> {}]
NoPbd == [type |-> "PBD_NONE", ref |-> NULL]
NoResult == [err |-> "none", payload |-> <<>>]
NoJob == [seg |-> NULL, barrier_ios |-> <<>>]
ZeroHdr == [id |-> 0, length |-> 0]

(* the state resume leaves on a freshly formatted cache device, with the
   read_cache_threshold, write_around_mode and nr_read_cache_cells options
   as given *)
InitOf(rct, wa, n) ==
    /\ mb = [i \in MbIdx |-> [sector |-> NoSector, is_dirty |-> FALSE, data_bits |-> {}]]
    /\ ht = [k \in Keys |-> <<>>]
    /\ seg = [s \in SegIdx |-> [id |-> IF s = 0 THEN 1 ELSE 0, length |-> 0,
                                nr_inflight_ios |-> 0]]
    /\ current_seg = 0
    /\ cursor = 0
    /\ current_rambuf = 0
    /\ rambuf = [r \in RambufIdx |-> [hdr |-> ZeroHdr, data |-> [s \in SlotIdx |-> JunkBlock]]]
    /\ job = [r \in RambufIdx |-> NoJob]
    /\ flusher_wq = <<>>
    /\ last_flushed_id = 0
    /\ last_writeback_id = 0
    /\ nr_dirty_caches = 0
    /\ barrier_ios = <<>>
    /\ cache_dev = [i \in MbIdx |-> JunkBlock]
    /\ backing = [k \in Keys |-> BackingBlock]
    /\ io_lock = NULL
    /\ next_id = 0
    /\ fcb_old = 0
    /\ cells = [c \in CellIdx |-> [sector |-> NoSector, cancelled |-> FALSE,
                                   data |-> JunkBlock]]
    /\ rb_root = {}
    /\ size = n
    /\ rc_cursor = size
    /\ last_sector = NoLast
    /\ seqcount = 0
    /\ over_threshold = FALSE
    /\ read_cache_threshold = rct
    /\ threshold = IF read_cache_threshold # 0 THEN read_cache_threshold ELSE UINT_MAX
    /\ ack_count = size
    /\ rc_i = 0
    /\ rc_pending = FALSE
    /\ write_around_mode = wa
    /\ pc = [p \in Procs |-> "idle"]
    /\ bio = [t \in Threads |-> NoBio]
    /\ res = [t \in Threads |-> NoRes]
    /\ wio = [t \in Threads |-> NoWio]
    /\ dirtiness = [t \in Threads |-> NoDirtiness]
    /\ pbd = [t \in Threads |-> NoPbd]
    /\ result = [t \in Threads |-> NoResult]
    /\ bug = "none"
    /\ nr_bios = 0
    /\ nr_fcb = 0
    /\ force_drop = FALSE
    /\ drop_pc = "idle"
    /\ drop_r = "ok"
    /\ g_atwake = 0
    /\ g_atreturn = 0
    /\ opt = [writeback_threshold |-> 0, nr_max_batched_writeback |-> 1,
              update_sb_record_interval |-> 0, sync_data_interval |-> 0]
    /\ msg_r = "none"
    /\ g_msg = <<>>
    /\ g_nomem = [t \in Threads |-> FALSE]
    /\ g_content = [k \in Keys |-> BackingBlock]
    /\ g_lastbits = [k \in Keys |-> {}]
    /\ g_quiet = [t \in Threads |-> FALSE]
    /\ g_barseg = [t \in Threads |-> 0]
    /\ g_ackseg = [t \in Threads |-> 0]
    /\ g_readseg = [t \in Threads |-> 0]
    /\ g_run = <<>>
    /\ g_promoted = {}
    /\ g_batch = 1

Init ==
    \E rct \in 0 .. MaxThreshold, wa \in BOOLEAN, n \in 1 .. NrReadCacheCells :
        InitOf(rct, wa, n)

(* --------------------------- hash index -------------------------------- *)
SeqRemove(s, x) == SelectSeq(s, LAMBDA y : y # x)

ht_del(h, idx) == [k \in Keys |-> SeqRemove(h[k], idx)]

ht_register(h, idx, key) ==
    [k \in Keys |-> IF k = key THEN <<idx>> \o SeqRemove(h[k], idx)
                    ELSE SeqRemove(h[k], idx)]

ht_lookup(h, m, key) ==
    LET hits == SelectSeq(h[key], LAMBDA i : m[i].sector = key)
    IN  IF hits = <<>> THEN NULL ELSE Head(hits)

is_on_buffer(idx) ==
    /\ idx >= start_idx(current_seg)
    /\ idx < start_idx(current_seg) + nr_caches_inseg

needs_queue_seg_never == FALSE
needs_queue_seg == mb_idx_inseg(cursor) = 0

(* ------------------------- small state helpers ------------------------- *)
Alive == bug = "none"

BioKey(b) == calc_cache_alignment(b.sector)
BioBits(b) == to_mask(b.offset, b.count)

\* mutant: cache_lookup takes no reference
inc_inflight_none(sg, s) == sg

inc_inflight(sg, s) == [sg EXCEPT ![s].nr_inflight_ios = @ + 1]

\* mutant: the reference is never dropped
dec_inflight_ios_none(sg, s) == sg

dec_inflight_ios(sg, s) == [sg EXCEPT ![s].nr_inflight_ios = @ - 1]

read_mb_dirtiness(m, idx) ==
    [is_dirty |-> m[idx].is_dirty, data_bits |-> m[idx].data_bits]

\* mutant: is_dirty is set, data_bits is left alone
taint_mb_flag_only(m, idx, data_bits) == [m EXCEPT ![idx].is_dirty = TRUE]

\* mutant: every taint counts as a flip
taint_flips_always(m, idx) == TRUE

\* the return value of taint_mb
taint_flips(m, idx) == ~m[idx].is_dirty

taint_mb(m, idx, data_bits) ==
    [m EXCEPT ![idx].is_dirty = TRUE, ![idx].data_bits = @ \cup data_bits]

mark_clean_mb(m, idx) == [m EXCEPT ![idx].is_dirty = FALSE]

(* read_mb: only the sectors named by data_bits are read into the scratch *)
read_mb(dev, idx, data_bits) ==
    [i \in Sectors |-> IF i \in data_bits THEN dev[idx][i] ELSE Junk]

(* mutant: the full-size fast path forgets its memcpy *)
write_on_rambuffer_partial_only(rb, r, idx, w) ==
    [rb EXCEPT ![r].data[mb_idx_inseg(idx)] =
        IF w.data_bits = FullBits THEN @
        ELSE memcpy_masked(@, {}, w.data, w.data_bits)]

write_on_rambuffer(rb, r, idx, w) ==
    [rb EXCEPT ![r].data[mb_idx_inseg(idx)] =
        IF w.data_bits = FullBits THEN w.data
        ELSE memcpy_masked(@, {}, w.data, w.data_bits)]

\* mutant: the tree is never searched
lookup_read_cache_cell_none(sector) == NULL

lookup_read_cache_cell(sector) ==
    IF \E c \in rb_root : cells[c].sector = sector
    THEN CHOOSE c \in rb_root : cells[c].sector = sector
    ELSE NULL

\* mutant: a staged write leaves the cell alone
might_cancel_read_cache_cell_never(cs, sector) == cs

might_cancel_read_cache_cell(cs, sector) ==
    LET found == lookup_read_cache_cell(calc_cache_alignment(sector))
    IN  IF found # NULL THEN [cs EXCEPT ![found].cancelled = TRUE] ELSE cs

(* ghost: the content a read of key k issued now, alone, has to return *)
Linearize(b) ==
    /\ g_content' = [g_content EXCEPT ![BioKey(b)] =
                        [i \in Sectors |-> IF i \in BioBits(b) THEN b.val ELSE @[i]]]
    /\ g_lastbits' = [g_lastbits EXCEPT ![BioKey(b)] = BioBits(b)]

Disturb(k) ==
    [u \in Threads |-> g_quiet[u] /\ ~(bio[u].rw = "R" /\ BioKey(bio[u]) = k)]

QuietAt(t, k) ==
    \A u \in Threads \ {t} : ~(bio[u].rw = "W" /\ BioKey(bio[u]) = k)

MkBio(rw, k, shape, v, fua) ==
    [rw |-> rw, sector |-> k + shape[1], offset |-> do_io_offset(k + shape[1]),
     count |-> shape[2], val |-> v, fua |-> fua]

Retired(f, t, none) == [f EXCEPT ![t] = none]

(* --------------------------- the write path ---------------------------- *)
initialize_write_io(b) ==
    [data |-> copy_bio_payload(JunkBlock, b.offset, b.count,
                               [i \in 0 .. (b.count - 1) |-> b.val]),
     data_bits |-> to_mask(b.offset, b.count)]

(* mutant: the bio is ended at once, FUA or not *)
complete_process_write_endio(t, b, sg) ==
    /\ seg' = dec_inflight_ios(sg, current_seg)
    /\ g_barseg' = [g_barseg EXCEPT ![t] = IF b.fua THEN sg[current_seg].id ELSE @]
    /\ pc' = [pc EXCEPT ![t] = IF b.fua THEN "done" ELSE "idle"]
    /\ bio' = [bio EXCEPT ![t] = IF b.fua THEN b ELSE NoBio]

(* complete_process_write up to queue_barrier_io; sg are the segments as
   do_process_write left them *)
complete_process_write(t, b, sg) ==
    /\ seg' = dec_inflight_ios(sg, current_seg)
    /\ IF b.fua
       THEN /\ pc' = [pc EXCEPT ![t] = "queue_barrier_io"]
            /\ bio' = [bio EXCEPT ![t] = b]
            /\ g_barseg' = [g_barseg EXCEPT ![t] = sg[current_seg].id]
       ELSE /\ pc' = [pc EXCEPT ![t] = "idle"]
            /\ bio' = Retired(bio, t, NoBio)
            /\ UNCHANGED g_barseg

(* the threads that may lose the processor between the mutex_unlock of
   do_process_write and the dec_inflight_ios of complete_process_write; for
   the others the two are one step *)
Preempted == Threads \ Writers

(* do_process_write returns 0 to process_write_wb: the reference on the
   current segment is still held *)
do_process_write_return(t, b, sg) ==
    /\ seg' = sg
    /\ pc' = [pc EXCEPT ![t] = "complete_process_write"]
    /\ bio' = [bio EXCEPT ![t] = b]
    /\ UNCHANGED g_barseg

(* mutant: do_process_write returns without mutex_unlock *)
do_write_no_unlock(t, b, w, m, h, sg, nd, pos) ==
    /\ rambuf' = write_on_rambuffer(rambuf, current_rambuf, pos, w)
    /\ mb' = [taint_mb(m, pos, w.data_bits) EXCEPT ![pos].sector = BioKey(b)]
    /\ nr_dirty_caches' = IF taint_flips(m, pos) THEN nd + 1 ELSE nd
    /\ ht' = ht_register(h, pos, BioKey(b))
    /\ io_lock' = t
    /\ Linearize(b)
    /\ wio' = Retired(wio, t, NoWio)
    /\ res' = Retired(res, t, NoRes)
    /\ IF t \in Preempted THEN do_process_write_return(t, b, sg)
       ELSE complete_process_write(t, b, sg)

(* do_write .. complete_process_write up to queue_barrier_io: write_on_rambuffer,
   taint_mb, inc_nr_dirty_caches, ht_register, mutex_unlock, dec_inflight_ios.
   m, h, sg, nd are the metablocks, index, segments and dirty counter as the
   caller left them; b is the bio and w its write_io *)
do_write(t, b, w, m, h, sg, nd, pos) ==
    /\ rambuf' = write_on_rambuffer(rambuf, current_rambuf, pos, w)
    /\ mb' = [taint_mb(m, pos, w.data_bits) EXCEPT ![pos].sector = BioKey(b)]
    /\ nr_dirty_caches' = IF taint_flips(m, pos) THEN nd + 1 ELSE nd
    /\ ht' = ht_register(h, pos, BioKey(b))
    /\ io_lock' = NULL
    /\ Linearize(b)
    /\ wio' = Retired(wio, t, NoWio)
    /\ res' = Retired(res, t, NoRes)
    /\ IF t \in Preempted THEN do_process_write_return(t, b, sg)
       ELSE complete_process_write(t, b, sg)

(* advance_cursor: the cursor after the wrap test, and the slot it hands out *)
advance_cursor_old == IF cursor = nr_caches THEN 0 ELSE cursor

(* mutant: the segment's length is not counted *)
advance_cursor_no_length(sg) ==
    [sg EXCEPT ![current_seg].nr_inflight_ios = @ + 1]

advance_cursor(sg) ==
    [sg EXCEPT ![current_seg].length = @ + 1,
               ![current_seg].nr_inflight_ios = @ + 1]

(* prepare_new_write_pos, then do_write *)
new_write(t, b, w, m, h, sg, nd) ==
    LET old == advance_cursor_old
        pos == start_idx(current_seg) + mb_idx_inseg(old)
    IN  IF sg[current_seg].length + 1 > nr_caches_inseg \/ m[pos].is_dirty
        THEN /\ bug' = "BUG_ON prepare_new_write_pos"
             /\ UNCHANGED <<mb, ht, seg, cursor, rambuf, nr_dirty_caches, io_lock,
                            pc, bio, wio, res, g_content, g_lastbits, g_barseg>>
        ELSE /\ cursor' = old + 1
             /\ UNCHANGED bug
             /\ do_write(t, b, w, [m EXCEPT ![pos].data_bits = {}], h,
                         advance_cursor(sg), nd, pos)

(* might_queue_current_buffer onwards: the hand-off blocks, so the handler
   parks with io_lock held when the current segment is full *)
write_tail(t, b, w, m, h, sg, nd) ==
    IF needs_queue_seg
    THEN /\ mb' = m /\ ht' = h /\ seg' = sg /\ nr_dirty_caches' = nd
         /\ io_lock' = t
         /\ bio' = [bio EXCEPT ![t] = b]
         /\ wio' = [wio EXCEPT ![t] = w]
         /\ res' = Retired(res, t, NoRes)
         /\ pc' = [pc EXCEPT ![t] = "queue_flush_job"]
         /\ UNCHANGED <<cursor, rambuf, bug, g_content, g_lastbits, g_barseg>>
    ELSE new_write(t, b, w, m, h, sg, nd)

needs_merge_prev_cache_uncovered(overwrite_bits, dirt) ==
    /\ dirt.is_dirty
    /\ ~(overwrite_bits = FullBits)
    /\ dirt.data_bits \ overwrite_bits # {}

needs_merge_prev_cache(overwrite_bits, dirt) ==
    /\ (~(overwrite_bits = FullBits) \/ ~(dirt.data_bits = FullBits))
    /\ dirt.is_dirty
    /\ ~(overwrite_bits = FullBits)

(* mutant: the old metablock stays in the hash index *)
overwrite_tail_no_ht_del(t, b, w, old_mb, sg) ==
    write_tail(t, b, w, mark_clean_mb(mb, old_mb), ht, sg,
               IF mb[old_mb].is_dirty THEN nr_dirty_caches - 1 ELSE nr_dirty_caches)

(* mutant: the flushed metablock is overwritten in place *)
overwrite_tail_in_place(t, b, w, old_mb, sg) ==
    /\ do_write(t, b, w, mb, ht, [sg EXCEPT ![current_seg].nr_inflight_ios = @ + 1],
                nr_dirty_caches, old_mb)
    /\ UNCHANGED <<cursor, bug>>

(* prepare_overwrite after its optional merge: mark_clean_mb, dec_nr_dirty_caches,
   ht_del, and the caller's dec_inflight_ios on the found segment *)
overwrite_tail(t, b, w, old_mb, sg) ==
    write_tail(t, b, w, mark_clean_mb(mb, old_mb), ht_del(ht, old_mb), sg,
               IF mb[old_mb].is_dirty THEN nr_dirty_caches - 1 ELSE nr_dirty_caches)

ProcessWrite(t, k, shape, fua) ==
    /\ UNCHANGED <<nr_fcb, ctl, grun>>
    /\ UNCHANGED g_readseg
    /\ Alive /\ pc[t] = "idle" /\ nr_bios < MaxBios
    /\ ~write_around_mode
    /\ io_lock = NULL
    /\ nr_bios' = nr_bios + 1
    /\ g_quiet' = Disturb(k)
    /\ LET b == MkBio("W", k, shape, nr_bios + 1, fua)
           w == initialize_write_io(b)
           found_mb == ht_lookup(ht, mb, k)
           found == found_mb # NULL
       IN  IF found /\ is_on_buffer(found_mb)
           THEN /\ do_write(t, b, w, mb, ht, inc_inflight(seg, mb_to_seg(found_mb)),
                            nr_dirty_caches, found_mb)
                /\ UNCHANGED <<cells, cursor, bug, dirtiness>>
           ELSE IF found
           THEN /\ UNCHANGED cells
                /\ IF needs_merge_prev_cache(w.data_bits, read_mb_dirtiness(mb, found_mb))
                   THEN /\ io_lock' = t
                        /\ seg' = inc_inflight(seg, mb_to_seg(found_mb))
                        /\ bio' = [bio EXCEPT ![t] = b]
                        /\ wio' = [wio EXCEPT ![t] = w]
                        /\ res' = [res EXCEPT ![t] = [found_mb |-> found_mb,
                                                      on_buffer |-> FALSE]]
                        /\ dirtiness' = [dirtiness EXCEPT ![t] =
                                             read_mb_dirtiness(mb, found_mb)]
                        /\ pc' = [pc EXCEPT ![t] = "prepare_overwrite"]
                        /\ UNCHANGED <<mb, ht, rambuf, nr_dirty_caches, cursor, bug,
                                       g_content, g_lastbits, g_barseg>>
                   ELSE /\ overwrite_tail(t, b, w, found_mb,
                               dec_inflight_ios(inc_inflight(seg, mb_to_seg(found_mb)),
                                                mb_to_seg(found_mb)))
                        /\ UNCHANGED dirtiness
           ELSE /\ cells' = might_cancel_read_cache_cell(cells, b.sector)
                /\ write_tail(t, b, w, mb, ht, seg, nr_dirty_caches)
                /\ UNCHANGED dirtiness
    /\ UNCHANGED <<current_seg, current_rambuf, job, flusher_wq, last_flushed_id,
                   last_writeback_id, barrier_ios, cache_dev, backing, next_id,
                   fcb_old, rb_root, rc_cursor, last_sector, seqcount,
                   over_threshold, threshold, ack_count, read_cache_threshold,
                   rc_i, rc_pending, write_around_mode, pbd, result, g_ackseg>>

(* mutant: the old metablock is invalidated before the read's error is tested *)
prepare_overwrite_error_late(t, old_mb) ==
    /\ seg' = dec_inflight_ios(seg, mb_to_seg(old_mb))
    /\ mb' = mark_clean_mb(mb, old_mb)
    /\ ht' = ht_del(ht, old_mb)
    /\ nr_dirty_caches' = IF mb[old_mb].is_dirty THEN nr_dirty_caches - 1
                          ELSE nr_dirty_caches
    /\ io_lock' = NULL
    /\ pc' = [pc EXCEPT ![t] = "done"]
    /\ result' = [result EXCEPT ![t] = [err |-> "EIO", payload |-> <<>>]]
    /\ UNCHANGED <<cursor, rambuf, bio, wio, res, bug, g_content, g_lastbits,
                   g_barseg>>

(* read_mb failed in prepare_overwrite: do_process_write drops the reference
   on the found segment, unlocks and ends the bio with the error *)
prepare_overwrite_error(t, old_mb) ==
    /\ seg' = dec_inflight_ios(seg, mb_to_seg(old_mb))
    /\ io_lock' = NULL
    /\ pc' = [pc EXCEPT ![t] = "done"]
    /\ result' = [result EXCEPT ![t] = [err |-> "EIO", payload |-> <<>>]]
    /\ UNCHANGED <<mb, ht, nr_dirty_caches, cursor, rambuf, bio, wio, res, bug,
                   g_content, g_lastbits, g_barseg>>

(* prepare_overwrite's merge: wait_for_flushing, read_mb, memcpy_masked *)
PrepareOverwrite(t, io_ok) ==
    /\ UNCHANGED <<nr_fcb, ctl, grun>>
    /\ UNCHANGED g_readseg
    /\ Alive /\ pc[t] = "prepare_overwrite" /\ io_lock = t
    /\ LET old_mb == res[t].found_mb
           sg == mb_to_seg(old_mb)
           dirt == dirtiness[t]
           buf == read_mb(cache_dev, old_mb, dirt.data_bits)
           merged == [data |-> memcpy_masked(wio[t].data, wio[t].data_bits, buf,
                                             dirt.data_bits),
                      data_bits |-> wio[t].data_bits \cup dirt.data_bits]
       IN  /\ last_flushed_id >= seg[sg].id
           /\ IF ~io_ok
              THEN prepare_overwrite_error(t, old_mb)
              ELSE /\ overwrite_tail(t, bio[t], merged, old_mb, dec_inflight_ios(seg, sg))
                   /\ UNCHANGED result
    /\ dirtiness' = Retired(dirtiness, t, NoDirtiness)
    /\ UNCHANGED <<current_seg, current_rambuf, job, flusher_wq, last_flushed_id,
                   last_writeback_id, barrier_ios, cache_dev, backing, next_id,
                   fcb_old, rcvars, write_around_mode, pbd, nr_bios,
                   g_quiet, g_ackseg>>

(* the write handler resumes after the hand-off *)
NewWritePos(t) ==
    /\ UNCHANGED <<nr_fcb, ctl, grun>>
    /\ UNCHANGED g_readseg
    /\ Alive /\ pc[t] = "new_write_pos" /\ io_lock = t
    /\ new_write(t, bio[t], wio[t], mb, ht, seg, nr_dirty_caches)
    /\ UNCHANGED <<current_seg, current_rambuf, job, flusher_wq, last_flushed_id,
                   last_writeback_id, barrier_ios, cache_dev, backing, next_id,
                   fcb_old, rcvars, write_around_mode, dirtiness, pbd, result,
                   nr_bios, g_quiet, g_ackseg>>

(* process_write_wb goes on to complete_process_write *)
CompleteProcessWrite(t) ==
    /\ UNCHANGED <<nr_fcb, ctl, grun>>
    /\ Alive /\ pc[t] = "complete_process_write"
    /\ complete_process_write(t, bio[t], seg)
    /\ UNCHANGED <<mb, ht, current_seg, cursor, current_rambuf, rambuf, job,
                   flusher_wq, last_flushed_id, last_writeback_id,
                   nr_dirty_caches, barrier_ios, cache_dev, backing, io_lock,
                   next_id, fcb_old, rcvars, write_around_mode, res, wio,
                   dirtiness, pbd, result, bug, nr_bios, g_content, g_lastbits,
                   g_quiet, g_ackseg, g_readseg>>

queue_barrier_io(t) == barrier_ios' = Append(barrier_ios, t)

QueueBarrierIo(t) ==
    /\ UNCHANGED <<nr_fcb, ctl, grun>>
    /\ Alive /\ pc[t] = "queue_barrier_io"
    /\ queue_barrier_io(t)
    /\ pc' = [pc EXCEPT ![t] = "barrier_wait"]
    /\ UNCHANGED <<mb, ht, seg, current_seg, cursor, current_rambuf, rambuf, job,
                   flusher_wq, last_flushed_id, last_writeback_id,
                   nr_dirty_caches, cache_dev, backing, io_lock, next_id, fcb_old,
                   rcvars, write_around_mode, bio, res, wio, dirtiness, pbd, result,
                   bug, nr_bios, ghost>>

(* mutant: the flush bio is ended at once *)
process_flush_bio_endio(t) ==
    /\ barrier_ios' = barrier_ios
    /\ pc' = [pc EXCEPT ![t] = "done"]

process_flush_bio(t) ==
    /\ queue_barrier_io(t)
    /\ pc' = [pc EXCEPT ![t] = "barrier_wait"]

ProcessFlushBio(t) ==
    /\ UNCHANGED <<nr_fcb, ctl, grun>>
    /\ UNCHANGED g_readseg
    /\ Alive /\ pc[t] = "idle" /\ nr_bios < MaxBios
    /\ nr_bios' = nr_bios + 1
    /\ bio' = [bio EXCEPT ![t] = [NoBio EXCEPT !.rw = "F"]]
    /\ g_barseg' = [g_barseg EXCEPT ![t] = seg[current_seg].id]
    /\ process_flush_bio(t)
    /\ UNCHANGED <<mb, ht, seg, current_seg, cursor, current_rambuf, rambuf, job,
                   flusher_wq, last_flushed_id, last_writeback_id,
                   nr_dirty_caches, cache_dev, backing, io_lock, next_id, fcb_old,
                   rcvars, write_around_mode, res, wio, dirtiness, pbd, result,
                   bug, g_content, g_lastbits, g_quiet, g_ackseg>>

(* ------------------- segment hand-off (under io_lock) ------------------ *)
AfterHandoff(p) ==
    IF p \in Threads THEN "new_write_pos"
    ELSE IF p = Worker THEN "inject_stage"
    ELSE "fcb_cursor_init"

prepare_rambuffer(rb, r, sg) ==
    [rb EXCEPT ![r].hdr = [id |-> sg.id, length |-> sg.length]]

\* mutant: the device's list is not emptied after the merge
copy_barrier_requests_keep(jb, r) ==
    /\ job' = [jb EXCEPT ![r].barrier_ios = barrier_ios]
    /\ barrier_ios' = barrier_ios

copy_barrier_requests(jb, r) ==
    /\ job' = [jb EXCEPT ![r].barrier_ios = barrier_ios]
    /\ barrier_ios' = <<>>

(* mutant: the id after next *)
prepare_new_seg_skipping == seg[current_seg].id + 2

(* prepare_new_seg: the id of the segment to acquire *)
prepare_new_seg == seg[current_seg].id + 1

\* mutant: the segment is queued while writes still hold references on it
queue_wait_inflight_none == TRUE

(* the wait of queue_flush_job for the references on the current segment *)
queue_wait_inflight == seg[current_seg].nr_inflight_ios = 0

QueueFlushJob(p) ==
    /\ UNCHANGED <<nr_fcb, ctl, grun>>
    /\ Alive /\ pc[p] = "queue_flush_job" /\ io_lock = p
    /\ queue_wait_inflight
    /\ rambuf' = prepare_rambuffer(rambuf, current_rambuf, seg[current_seg])
    /\ copy_barrier_requests([job EXCEPT ![current_rambuf].seg = current_seg],
                             current_rambuf)
    /\ flusher_wq' = Append(flusher_wq, current_rambuf)
    /\ next_id' = prepare_new_seg
    /\ pc' = [pc EXCEPT ![p] = "acquire_new_rambuffer"]
    /\ UNCHANGED <<mb, ht, seg, current_seg, cursor, current_rambuf, last_flushed_id, last_writeback_id, nr_dirty_caches, cache_dev,
                   backing, io_lock, fcb_old, rcvars, write_around_mode, bio, res,
                   wio, dirtiness, pbd, result, bug, nr_bios, ghost>>

init_rambuffer(rb, r) == [rb EXCEPT ![r].hdr = ZeroHdr]

\* mutant: the RAM buffer is taken without waiting for its flush
acquire_wait_flushing_none(id) == TRUE

(* the wait of __acquire_new_rambuffer: wait_for_flushing(id - NR_RAMBUF_POOL) *)
acquire_wait_flushing(id) == last_flushed_id >= SUB_ID(id, NR_RAMBUF_POOL)

AcquireNewRambuffer(p) ==
    /\ UNCHANGED <<nr_fcb, ctl, grun>>
    /\ Alive /\ pc[p] = "acquire_new_rambuffer" /\ io_lock = p
    /\ acquire_wait_flushing(next_id)
    /\ current_rambuf' = rambuf_of_id(next_id)
    /\ rambuf' = init_rambuffer(rambuf, current_rambuf')
    /\ pc' = [pc EXCEPT ![p] = "acquire_new_seg"]
    /\ UNCHANGED <<mb, ht, seg, current_seg, cursor, job, flusher_wq, last_flushed_id, last_writeback_id, nr_dirty_caches, barrier_ios,
                   cache_dev, backing, io_lock, next_id, fcb_old, rcvars,
                   write_around_mode, bio, res, wio, dirtiness, pbd, result, bug,
                   nr_bios, ghost>>

count_dirty_caches_remained(s) ==
    Cardinality({i \in 0 .. (seg[s].length - 1) : mb[start_idx(s) + i].is_dirty})

SegMbs(s) == {start_idx(s) + i : i \in SlotIdx}

discard_caches_inseg(h, s) ==
    [k \in Keys |-> SelectSeq(h[k], LAMBDA i : i \notin SegMbs(s))]

(* the two waits of __acquire_new_seg: for the references on the slot and
   for the writeback of the segment that held it *)
acquire_wait_inflight_none(new_seg) == TRUE
acquire_wait_inflight(new_seg) == seg[new_seg].nr_inflight_ios = 0
acquire_wait_writeback_none(id) == TRUE
acquire_wait_writeback(id) == last_writeback_id >= SUB_ID(id, NrSegments)

AcquireNewSeg(p) ==
    /\ UNCHANGED <<nr_fcb, ctl, grun>>
    /\ Alive /\ pc[p] = "acquire_new_seg" /\ io_lock = p
    /\ LET new_seg == get_segment_header_by_id(next_id)
       IN  /\ acquire_wait_inflight(new_seg)
           /\ acquire_wait_writeback(next_id)
           /\ IF count_dirty_caches_remained(new_seg) > 0
              THEN /\ bug' = "BUG __acquire_new_seg"
                   /\ UNCHANGED <<ht, seg, current_seg, cursor, pc, next_id>>
              ELSE /\ ht' = discard_caches_inseg(ht, new_seg)
                   /\ seg' = [seg EXCEPT ![new_seg].id = next_id,
                                         ![new_seg].length = 0]
                   /\ current_seg' = new_seg
                   /\ cursor' = start_idx(new_seg)
                   /\ pc' = [pc EXCEPT ![p] = AfterHandoff(p)]
                   /\ next_id' = 0
                   /\ UNCHANGED bug
    /\ UNCHANGED <<mb, current_rambuf, rambuf, job, flusher_wq, last_flushed_id,
                   last_writeback_id, nr_dirty_caches, barrier_ios,
                   cache_dev, backing, io_lock, fcb_old, rcvars,
                   write_around_mode, bio, res, wio, dirtiness, pbd, result,
                   nr_bios, ghost>>

(* ------------------------ flush_current_buffer ------------------------- *)
FcbLockUpTo(limit) ==
    /\ Alive /\ pc[Fcb] = "idle" /\ io_lock = NULL
    /\ nr_fcb < limit
    /\ nr_fcb' = nr_fcb + 1
    /\ UNCHANGED <<ctl, grun>>
    /\ io_lock' = Fcb
    /\ fcb_old' = current_seg
    /\ pc' = [pc EXCEPT ![Fcb] = "queue_flush_job"]
    /\ UNCHANGED <<mb, ht, seg, current_seg, cursor, current_rambuf, rambuf, job,
                   flusher_wq, last_flushed_id, last_writeback_id,
                   nr_dirty_caches, barrier_ios, cache_dev, backing, next_id,
                   rcvars, write_around_mode, bio, res, wio, dirtiness, pbd, result,
                   bug, nr_bios, ghost>>

FcbCursorInit ==
    /\ UNCHANGED <<nr_fcb, ctl, grun>>
    /\ Alive /\ pc[Fcb] = "fcb_cursor_init" /\ io_lock = Fcb
    /\ cursor' = start_idx(current_seg)
    /\ seg' = [seg EXCEPT ![current_seg].length = 0]
    /\ io_lock' = NULL
    /\ pc' = [pc EXCEPT ![Fcb] = "fcb_wait_for_flushing"]
    /\ UNCHANGED <<mb, ht, current_seg, current_rambuf, rambuf, job, flusher_wq,
                   last_flushed_id, last_writeback_id, nr_dirty_caches,
                   barrier_ios, cache_dev, backing, next_id, fcb_old, rcvars,
                   write_around_mode, bio, res, wio, dirtiness, pbd, result, bug,
                   nr_bios, ghost>>

FcbWaitForFlushing ==
    /\ UNCHANGED <<nr_fcb, ctl, grun>>
    /\ Alive /\ pc[Fcb] = "fcb_wait_for_flushing"
    /\ last_flushed_id >= seg[fcb_old].id
    /\ pc' = [pc EXCEPT ![Fcb] = "idle"]
    /\ fcb_old' = 0
    /\ UNCHANGED <<mb, ht, seg, current_seg, cursor, current_rambuf, rambuf, job,
                   flusher_wq, last_flushed_id, last_writeback_id, nr_dirty_caches,
                   barrier_ios, cache_dev, backing, io_lock, next_id, rcvars, write_around_mode, bio, res, wio, dirtiness, pbd,
                   result, bug, nr_bios, ghost>>

(* flush_current_buffer called while no bio is being mapped *)
FcbLock == FcbLockUpTo(MaxFcb)

FcbLockIdle ==
    /\ \A p \in Threads \cup {Worker} : pc[p] = "idle"
    /\ FcbLock

(* ------------------- flusher and writeback daemons --------------------- *)
InList(sq, x) == \E i \in 1 .. Len(sq) : sq[i] = x

flush_proc ==
    LET r == Head(flusher_wq)
        s == job[r].seg
        acked == job[r].barrier_ios
    IN  /\ cache_dev' = [i \in MbIdx |->
                            IF mb_to_seg(i) = s THEN rambuf[r].data[mb_idx_inseg(i)]
                            ELSE cache_dev[i]]
        /\ last_flushed_id' = seg[s].id
        /\ pc' = [p \in Procs |-> IF InList(acked, p) THEN "done" ELSE pc[p]]
        /\ result' = [t \in Threads |->
                         IF InList(acked, t) THEN [err |-> "ok", payload |-> <<>>]
                         ELSE result[t]]
        /\ g_ackseg' = [t \in Threads |->
                           IF InList(acked, t) THEN seg[s].id ELSE g_ackseg[t]]
        /\ job' = [job EXCEPT ![r] = NoJob]
        /\ flusher_wq' = Tail(flusher_wq)

Flush ==
    /\ UNCHANGED <<nr_fcb, ctl, grun>>
    /\ UNCHANGED g_readseg
    /\ Alive /\ flusher_wq # <<>>
    /\ flush_proc
    /\ UNCHANGED <<mb, ht, seg, current_seg, cursor, current_rambuf, rambuf,
                   last_writeback_id, nr_dirty_caches, barrier_ios,
                   backing, io_lock, next_id, fcb_old, rcvars, write_around_mode,
                   bio, res, wio, dirtiness, pbd, bug, nr_bios, g_content,
                   g_lastbits, g_quiet, g_barseg>>

WbDirty(s) == {i \in SegMbs(s) : mb_idx_inseg(i) < seg[s].length /\ mb[i].is_dirty}

Writeback ==
    /\ UNCHANGED <<nr_fcb, ctl, grun>>
    /\ Alive /\ last_writeback_id < last_flushed_id
    /\ LET id == last_writeback_id + 1
           s == get_segment_header_by_id(id)
           dirty == WbDirty(s)
       IN  /\ backing' = [k \in Keys |->
                  IF \E i \in dirty : mb[i].sector = k
                  THEN LET i == CHOOSE i \in dirty : mb[i].sector = k
                       IN  memcpy_masked(backing[k], {}, cache_dev[i], mb[i].data_bits)
                  ELSE backing[k]]
           /\ mb' = [i \in MbIdx |-> IF i \in dirty THEN [mb[i] EXCEPT !.is_dirty = FALSE]
                                     ELSE mb[i]]
           /\ nr_dirty_caches' = nr_dirty_caches - Cardinality(dirty)
           /\ last_writeback_id' = id
    /\ UNCHANGED <<ht, seg, current_seg, cursor, current_rambuf, rambuf, job,
                   flusher_wq, last_flushed_id, barrier_ios, cache_dev,
                   io_lock, next_id, fcb_old, rcvars, write_around_mode, locals,
                   bug, nr_bios, ghost>>

Retire(t) ==
    /\ UNCHANGED <<nr_fcb, size, force_drop, drop_pc, drop_r, g_atwake, g_atreturn,
                   msgv, grun>>
    /\ g_nomem' = Retired(g_nomem, t, FALSE)
    /\ Alive /\ pc[t] = "done"
    /\ pc' = [pc EXCEPT ![t] = "idle"]
    /\ bio' = Retired(bio, t, NoBio)
    /\ res' = Retired(res, t, NoRes)
    /\ wio' = Retired(wio, t, NoWio)
    /\ dirtiness' = Retired(dirtiness, t, NoDirtiness)
    /\ pbd' = Retired(pbd, t, NoPbd)
    /\ result' = Retired(result, t, NoResult)
    /\ g_quiet' = Retired(g_quiet, t, FALSE)
    /\ g_barseg' = Retired(g_barseg, t, 0)
    /\ g_ackseg' = Retired(g_ackseg, t, 0)
    /\ g_readseg' = Retired(g_readseg, t, 0)
    /\ UNCHANGED <<core, rcvars, write_around_mode, bug, nr_bios, g_content, g_lastbits>>

(* ------------------------- write-around mode --------------------------- *)
ProcessWriteWa(t, k, shape) ==
    /\ UNCHANGED <<nr_fcb, ctl, grun>>
    /\ UNCHANGED g_readseg
    /\ Alive /\ pc[t] = "idle" /\ nr_bios < MaxBios
    /\ write_around_mode
    /\ io_lock = NULL
    /\ nr_bios' = nr_bios + 1
    /\ bio' = [bio EXCEPT ![t] = MkBio("W", k, shape, nr_bios + 1, FALSE)]
    /\ g_quiet' = Disturb(k)
    /\ LET found_mb == ht_lookup(ht, mb, k)
       IN  /\ ht' = IF found_mb # NULL THEN ht_del(ht, found_mb) ELSE ht
           /\ seg' = IF found_mb # NULL
                     THEN dec_inflight_ios(inc_inflight(seg, mb_to_seg(found_mb)),
                                           mb_to_seg(found_mb))
                     ELSE seg
    /\ cells' = might_cancel_read_cache_cell(cells, bio'[t].sector)
    /\ pc' = [pc EXCEPT ![t] = "wa_backing"]
    /\ UNCHANGED <<mb, current_seg, cursor, current_rambuf, rambuf, job,
                   flusher_wq, last_flushed_id, last_writeback_id, nr_dirty_caches,
                   barrier_ios, cache_dev, backing, io_lock, next_id, fcb_old,
                   rb_root, rc_cursor, last_sector, seqcount, over_threshold,
                   threshold, ack_count, read_cache_threshold, rc_i, rc_pending,
                   write_around_mode, res, wio, dirtiness, pbd, result, bug,
                   g_content, g_lastbits, g_barseg, g_ackseg>>

EndIoWa(t) ==
    /\ UNCHANGED <<nr_fcb, ctl, grun>>
    /\ UNCHANGED g_readseg
    /\ Alive /\ pc[t] = "wa_backing"
    /\ backing' = [backing EXCEPT ![BioKey(bio[t])] =
                      [i \in Sectors |-> IF i \in BioBits(bio[t]) THEN bio[t].val ELSE @[i]]]
    /\ Linearize(bio[t])
    /\ pc' = [pc EXCEPT ![t] = "idle"]
    /\ bio' = Retired(bio, t, NoBio)
    /\ UNCHANGED <<mb, ht, seg, current_seg, cursor, current_rambuf, rambuf, job,
                   flusher_wq, last_flushed_id, last_writeback_id, nr_dirty_caches,
                   barrier_ios, cache_dev, io_lock, next_id, fcb_old, rcvars,
                   write_around_mode, res, wio, dirtiness, pbd, result, bug,
                   nr_bios, g_quiet, g_barseg, g_ackseg>>

(* --------------------- read-cache cell reservation --------------------- *)
\* mutant: the cells of the sequence are left alone
read_cache_cancel_cells_none(cs, cur, sc) == cs

read_cache_cancel_cells(cs, cur, sc) ==
    LET last == IF cur + sc > size THEN size ELSE cur + sc
    IN  [c \in CellIdx |-> IF c >= cur /\ c < last
                           THEN [cs[c] EXCEPT !.cancelled = TRUE] ELSE cs[c]]

(* read_cache_cancel_foreground on the cell at cur, just given sector *)
read_cache_cancel_foreground(cs, cur, sector) ==
    LET sc == IF sector = last_sector + 8 THEN seqcount + 1 ELSE 1
        ot == IF sector = last_sector + 8 THEN over_threshold ELSE FALSE
    IN  [cells |-> IF sc > threshold
                   THEN IF ot THEN [cs EXCEPT ![cur].cancelled = TRUE]
                        ELSE read_cache_cancel_cells(cs, cur, sc)
                   ELSE cs,
         seqcount |-> sc,
         over_threshold |-> IF sc > threshold THEN TRUE ELSE ot,
         last_sector |-> sector]

WillReserve(b) ==
    /\ read_cache_threshold # 0
    /\ rc_cursor # 0
    /\ io_fullsize(b)
    /\ lookup_read_cache_cell(b.sector) = NULL

reserve_read_cache_cell(t, b) ==
    IF threshold = 0
    THEN /\ bug' = "BUG_ON reserve_read_cache_cell"
         /\ UNCHANGED <<cells, rb_root, rc_cursor, last_sector, seqcount,
                        over_threshold, pbd>>
    ELSE /\ UNCHANGED bug
         /\ IF WillReserve(b)
            THEN LET cur == rc_cursor - 1
                     fg == read_cache_cancel_foreground(
                               [cells EXCEPT ![cur].sector = b.sector], cur, b.sector)
                 IN  /\ rc_cursor' = cur
                     /\ rb_root' = rb_root \cup {cur}
                     /\ pbd' = [pbd EXCEPT ![t] = [type |-> "PBD_WILL_CACHE", ref |-> cur]]
                     /\ cells' = fg.cells
                     /\ seqcount' = fg.seqcount
                     /\ over_threshold' = fg.over_threshold
                     /\ last_sector' = fg.last_sector
            ELSE UNCHANGED <<cells, rb_root, rc_cursor, last_sector, seqcount,
                             over_threshold, pbd>>

(* ---------------------------- the read path ---------------------------- *)
JunkPayload(b) == [i \in 0 .. (b.count - 1) |-> Junk]

fill_payload_by_backing(b) ==
    copy_to_bio_payload(JunkPayload(b), b.offset, b.count, backing[BioKey(b)],
                        to_mask(b.offset, b.count))

(* ghost: a 4 KiB read miss extends the run when it is at the previous miss
   + 8 and starts a new run otherwise *)
TrackRun(b, missed) ==
    LET e == [sector |-> b.sector, batch |-> g_batch, reserved |-> WillReserve(b)]
        extends == g_run # <<>> /\ b.sector = g_run[Len(g_run)].sector + 8
    IN  IF missed /\ io_fullsize(b)
        THEN /\ g_run' = IF extends THEN Append(g_run, e) ELSE <<e>>
             /\ g_promoted' = IF extends THEN g_promoted ELSE {}
        ELSE UNCHANGED <<g_run, g_promoted>>

ProcessRead(t, k, shape) ==
    /\ UNCHANGED <<nr_fcb, ctl, g_batch>>
    /\ TrackRun(MkBio("R", k, shape, 0, FALSE), ht_lookup(ht, mb, k) = NULL)
    /\ Alive /\ pc[t] = "idle" /\ nr_bios < MaxBios
    /\ io_lock = NULL
    /\ nr_bios' = nr_bios + 1
    /\ bio' = [bio EXCEPT ![t] = MkBio("R", k, shape, 0, FALSE)]
    /\ g_quiet' = [g_quiet EXCEPT ![t] = QuietAt(t, k)]
    /\ LET found_mb == ht_lookup(ht, mb, k)
       IN  IF found_mb # NULL
           THEN /\ seg' = inc_inflight(seg, mb_to_seg(found_mb))
                /\ g_readseg' = [g_readseg EXCEPT ![t] = seg[mb_to_seg(found_mb)].id]
                /\ res' = [res EXCEPT ![t] = [found_mb |-> found_mb,
                                              on_buffer |-> is_on_buffer(found_mb)]]
                /\ pc' = [pc EXCEPT ![t] = "read_hit"]
                /\ UNCHANGED <<cells, rb_root, rc_cursor, last_sector, seqcount,
                               over_threshold, pbd, bug>>
           ELSE /\ reserve_read_cache_cell(t, bio'[t])
                /\ pc' = [pc EXCEPT ![t] = "read_backing"]
                /\ UNCHANGED <<seg, res, g_readseg>>
    /\ UNCHANGED <<mb, ht, current_seg, cursor, current_rambuf, rambuf, job,
                   flusher_wq, last_flushed_id, last_writeback_id, nr_dirty_caches,
                   barrier_ios, cache_dev, backing, io_lock, next_id, fcb_old,
                   threshold, ack_count, read_cache_threshold, rc_i, rc_pending,
                   write_around_mode, wio, dirtiness, result, g_content,
                   g_lastbits, g_barseg, g_ackseg>>

read_cache_cell_copy_data_eager(t, error, payload) ==
    LET c == pbd[t].ref
        cancelled == cells[c].cancelled \/ error
    IN  /\ cells' = [cells EXCEPT ![c].cancelled = cancelled,
                                  ![c].data = IF cancelled THEN @
                                              ELSE copy_bio_payload(@, 0, 8, payload)]
        /\ ack_count' = ack_count - 1
        /\ rc_pending' = (rc_pending \/ ack_count' <= 1)

read_cache_cell_copy_data(t, error, payload) ==
    LET c == pbd[t].ref
        cancelled == cells[c].cancelled \/ error
    IN  /\ cells' = [cells EXCEPT ![c].cancelled = cancelled,
                                  ![c].data = IF cancelled THEN @
                                              ELSE copy_bio_payload(@, 0, 8, payload)]
        /\ ack_count' = ack_count - 1
        /\ rc_pending' = (rc_pending \/ ack_count' = 0)

(* writeboost_end_io of a read remapped to the backing device *)
EndIoBacking(t, io_ok) ==
    /\ UNCHANGED <<nr_fcb, ctl, grun>>
    /\ Alive /\ pc[t] = "read_backing"
    /\ LET payload == fill_payload_by_backing(bio[t])
       IN  /\ result' = [result EXCEPT ![t] =
                            IF io_ok THEN [err |-> "ok", payload |-> payload]
                            ELSE [err |-> "EIO", payload |-> <<>>]]
           /\ IF pbd[t].type = "PBD_WILL_CACHE"
              THEN read_cache_cell_copy_data(t, ~io_ok, payload)
              ELSE UNCHANGED <<cells, ack_count, rc_pending>>
    /\ pc' = [pc EXCEPT ![t] = "done"]
    /\ UNCHANGED <<core, rb_root, rc_cursor, last_sector, seqcount, over_threshold,
                   threshold, read_cache_threshold, rc_i, write_around_mode, bio,
                   res, wio, dirtiness, pbd, bug, nr_bios, ghost>>

ref_buffered_mb(idx) == rambuf[current_rambuf].data[mb_idx_inseg(idx)]

ReadHit(t, io_ok) ==
    /\ UNCHANGED <<nr_fcb, ctl, grun>>
    /\ Alive /\ pc[t] = "read_hit"
    /\ LET found_mb == res[t].found_mb
           dirt == read_mb_dirtiness(mb, found_mb)
           b == bio[t]
           filled == fill_payload_by_backing(b)
       IN  IF res[t].on_buffer
           THEN /\ seg' = dec_inflight_ios(seg, mb_to_seg(found_mb))
                /\ result' = [result EXCEPT ![t] =
                      IF ~io_ok THEN [err |-> "EIO", payload |-> <<>>]
                      ELSE [err |-> "ok", payload |->
                               IF dirt.is_dirty
                               THEN copy_to_bio_payload(filled, b.offset, b.count,
                                        ref_buffered_mb(found_mb), dirt.data_bits)
                               ELSE filled]]
                /\ pc' = [pc EXCEPT ![t] = "done"]
                /\ UNCHANGED dirtiness
           ELSE /\ io_ok
                /\ dirtiness' = [dirtiness EXCEPT ![t] = dirt]
                /\ pc' = [pc EXCEPT ![t] = "wait_for_flushing"]
                /\ UNCHANGED <<seg, result>>
    /\ UNCHANGED <<mb, ht, current_seg, cursor, current_rambuf, rambuf, job,
                   flusher_wq, last_flushed_id, last_writeback_id, nr_dirty_caches,
                   barrier_ios, cache_dev, backing, io_lock, next_id, fcb_old,
                   rcvars, write_around_mode, bio, res, wio, pbd, bug, nr_bios,
                   ghost>>

(* mutant: the wait is one segment short *)
found_seg_id_previous(t) == SUB_ID(seg[mb_to_seg(res[t].found_mb)].id, 1)

(* res.found_seg->id, as process_read passes it to wait_for_flushing *)
found_seg_id(t) == seg[mb_to_seg(res[t].found_mb)].id

\* mutant: every flushed block is served by remapping the bio
read_needs_fill_never(dirt) == FALSE

(* process_read: a flushed block that is not valid in all eight sectors is
   rebuilt from the backing device and the named sectors of the cache block *)
read_needs_fill(dirt) == dirt.data_bits # FullBits

ReadWaitForFlushing(t, io_ok) ==
    /\ UNCHANGED <<nr_fcb, ctl, grun>>
    /\ Alive /\ pc[t] = "wait_for_flushing"
    /\ LET found_mb == res[t].found_mb
           found_seg == mb_to_seg(found_mb)
           dirt == dirtiness[t]
           b == bio[t]
           filled == fill_payload_by_backing(b)
       IN  /\ last_flushed_id >= found_seg_id(t)
           /\ IF read_needs_fill(dirt)
              THEN /\ seg' = dec_inflight_ios(seg, found_seg)
                   /\ result' = [result EXCEPT ![t] =
                         IF ~io_ok THEN [err |-> "EIO", payload |-> <<>>]
                         ELSE [err |-> "ok", payload |->
                                  IF dirt.is_dirty
                                  THEN copy_to_bio_payload(filled, b.offset, b.count,
                                           read_mb(cache_dev, found_mb, dirt.data_bits),
                                           dirt.data_bits)
                                  ELSE filled]]
                   /\ pc' = [pc EXCEPT ![t] = "done"]
                   /\ UNCHANGED pbd
              ELSE /\ io_ok
                   /\ pbd' = [pbd EXCEPT ![t] = [type |-> "PBD_READ_SEG", ref |-> found_seg]]
                   /\ pc' = [pc EXCEPT ![t] = "read_cache_dev"]
                   /\ UNCHANGED <<seg, result>>
    /\ UNCHANGED <<mb, ht, current_seg, cursor, current_rambuf, rambuf, job,
                   flusher_wq, last_flushed_id, last_writeback_id, nr_dirty_caches,
                   barrier_ios, cache_dev, backing, io_lock, next_id, fcb_old,
                   rcvars, write_around_mode, bio, res, wio, dirtiness, bug,
                   nr_bios, ghost>>

(* writeboost_end_io of a read remapped to the cache device (PBD_READ_SEG) *)
EndIoReadSeg(t, io_ok) ==
    /\ UNCHANGED <<nr_fcb, ctl, grun>>
    /\ Alive /\ pc[t] = "read_cache_dev"
    /\ LET b == bio[t]
       IN  result' = [result EXCEPT ![t] =
              IF ~io_ok THEN [err |-> "EIO", payload |-> <<>>]
              ELSE [err |-> "ok", payload |->
                       copy_to_bio_payload(JunkPayload(b), b.offset, b.count,
                                           cache_dev[res[t].found_mb],
                                           to_mask(b.offset, b.count))]]
    /\ seg' = dec_inflight_ios(seg, pbd[t].ref)
    /\ pc' = [pc EXCEPT ![t] = "done"]
    /\ UNCHANGED <<mb, ht, current_seg, cursor, current_rambuf, rambuf, job,
                   flusher_wq, last_flushed_id, last_writeback_id, nr_dirty_caches,
                   barrier_ios, cache_dev, backing, io_lock, next_id, fcb_old,
                   rcvars, write_around_mode, bio, res, wio, dirtiness, pbd, bug,
                   nr_bios, ghost>>

(* ------------------------- read-cache worker --------------------------- *)
TreeSectors == {cells[c].sector : c \in rb_root}

(* the cells of the tree from sector a up to sector b form one +8 sequence *)
Contiguous(a, b) ==
    \A i \in 0 .. ((b - a) \div 8) : (a + 8 * i) \in TreeSectors

SeqOf(c) ==
    {d \in rb_root :
        IF cells[d].sector <= cells[c].sector
        THEN Contiguous(cells[d].sector, cells[c].sector)
        ELSE Contiguous(cells[c].sector, cells[d].sector)}

read_cache_cancel_background(cs) ==
    [c \in CellIdx |->
        IF c \in rb_root /\ Cardinality(SeqOf(c)) > threshold
        THEN [cs[c] EXCEPT !.cancelled = TRUE] ELSE cs[c]]

(* read_cache_proc is dispatched once ack_count has reached zero *)
ReadCacheProc ==
    /\ UNCHANGED <<nr_fcb, ctl, grun>>
    /\ Alive /\ pc[Worker] = "idle" /\ rc_pending
    /\ rc_pending' = FALSE
    /\ cells' = read_cache_cancel_background(cells)
    /\ rc_i' = 0
    /\ pc' = [pc EXCEPT ![Worker] = "inject"]
    /\ UNCHANGED <<core, rb_root, rc_cursor, last_sector, seqcount, over_threshold,
                   threshold, ack_count, read_cache_threshold, write_around_mode,
                   bio, res, wio, dirtiness, pbd, result, bug, nr_bios, ghost>>

(* the loop of read_cache_proc moves to the next cell; after the last one
   reinit_read_cache_cells runs up to its mutex_lock *)
next_cell(cs) ==
    IF rc_i + 1 < size
    THEN /\ rc_i' = rc_i + 1
         /\ cells' = cs
         /\ pc' = [pc EXCEPT ![Worker] = "inject"]
         /\ UNCHANGED ack_count
    ELSE /\ rc_i' = 0
         /\ cells' = [c \in CellIdx |-> [cs[c] EXCEPT !.cancelled = FALSE]]
         /\ ack_count' = size
         /\ pc' = [pc EXCEPT ![Worker] = "reinit_read_cache_cells"]

(* inject_read_cache from advance_cursor to dec_inflight_ios *)
(* the metablock of an injected cell: all sectors valid, is_dirty untouched *)
inject_mb_dirty(m, pos, sector) ==
    [m EXCEPT ![pos].data_bits = FullBits, ![pos].sector = sector,
              ![pos].is_dirty = TRUE]

inject_mb(m, pos, sector) ==
    [m EXCEPT ![pos].data_bits = FullBits, ![pos].sector = sector]

inject_stage ==
    LET cell == cells[rc_i]
        old == advance_cursor_old
        pos == start_idx(current_seg) + mb_idx_inseg(old)
    IN  IF seg[current_seg].length + 1 > nr_caches_inseg \/ mb[pos].is_dirty
        THEN /\ bug' = "BUG_ON inject_read_cache"
             /\ UNCHANGED <<cursor, rambuf, mb, ht, seg, io_lock, rc_i, cells, pc,
                            ack_count, g_promoted>>
        ELSE /\ cursor' = old + 1
             /\ g_promoted' = g_promoted \cup {<<cell.sector, g_batch>>}
             /\ rambuf' = [rambuf EXCEPT ![current_rambuf].data[mb_idx_inseg(old)] =
                              cell.data]
             /\ mb' = inject_mb(mb, pos, cell.sector)
             /\ ht' = ht_register(ht, pos, cell.sector)
             /\ seg' = dec_inflight_ios(advance_cursor(seg), current_seg)
             /\ io_lock' = NULL
             /\ next_cell(cells)
             /\ UNCHANGED bug

InjectReadCache ==
    /\ UNCHANGED <<nr_fcb, ctl, g_run, g_batch>>
    /\ Alive /\ pc[Worker] = "inject" /\ io_lock = NULL
    /\ IF cells[rc_i].cancelled
       THEN /\ next_cell(cells)
            /\ UNCHANGED <<cursor, rambuf, mb, ht, seg, io_lock, bug, g_promoted>>
       ELSE IF needs_queue_seg
       THEN /\ io_lock' = Worker
            /\ pc' = [pc EXCEPT ![Worker] = "queue_flush_job"]
            /\ UNCHANGED <<cursor, rambuf, mb, ht, seg, rc_i, cells, ack_count, bug,
                           g_promoted>>
       ELSE inject_stage
    /\ UNCHANGED <<current_seg, current_rambuf, job, flusher_wq, last_flushed_id,
                   last_writeback_id, nr_dirty_caches, barrier_ios, cache_dev,
                   backing, next_id, fcb_old, rb_root, rc_cursor, last_sector,
                   seqcount, over_threshold, threshold, read_cache_threshold,
                   rc_pending, write_around_mode, bio, res, wio, dirtiness, pbd,
                   result, nr_bios, ghost>>

(* the worker resumes after the hand-off *)
InjectStage ==
    /\ UNCHANGED <<nr_fcb, ctl, g_run, g_batch>>
    /\ Alive /\ pc[Worker] = "inject_stage" /\ io_lock = Worker
    /\ inject_stage
    /\ UNCHANGED <<current_seg, current_rambuf, job, flusher_wq, last_flushed_id,
                   last_writeback_id, nr_dirty_caches, barrier_ios, cache_dev,
                   backing, next_id, fcb_old, rb_root, rc_cursor, last_sector,
                   seqcount, over_threshold, threshold, read_cache_threshold,
                   rc_pending, write_around_mode, bio, res, wio, dirtiness, pbd,
                   result, nr_bios, ghost>>

adopts_threshold_any(cur_threshold) == cur_threshold # threshold

(* reinit_read_cache_cells: cur_threshold && (cur_threshold != cells->threshold) *)
adopts_threshold(cur_threshold) == cur_threshold # 0 /\ cur_threshold # threshold

(* reinit_read_cache_cells from its mutex_lock on *)
ReinitReadCacheCells ==
    /\ UNCHANGED <<nr_fcb, ctl, g_run, g_promoted>>
    /\ g_batch' = g_batch + 1
    /\ Alive /\ pc[Worker] = "reinit_read_cache_cells" /\ io_lock = NULL
    /\ rb_root' = {}
    /\ rc_cursor' = size
    /\ LET cur_threshold == read_cache_threshold
       IN  IF adopts_threshold(cur_threshold)
           THEN threshold' = cur_threshold /\ over_threshold' = FALSE
           ELSE UNCHANGED <<threshold, over_threshold>>
    /\ pc' = [pc EXCEPT ![Worker] = "idle"]
    /\ UNCHANGED <<core, cells, last_sector, seqcount, ack_count,
                   read_cache_threshold, rc_i, rc_pending, write_around_mode, bio,
                   res, wio, dirtiness, pbd, result, bug, nr_bios, ghost>>

(* writeboost_message: the read_cache_threshold key *)
Message(v) ==
    /\ UNCHANGED <<nr_fcb, ctl, grun>>
    /\ Alive
    /\ read_cache_threshold # v
    /\ read_cache_threshold' = v
    /\ UNCHANGED <<core, cells, rb_root, rc_cursor, last_sector, seqcount,
                   over_threshold, threshold, ack_count, rc_i, rc_pending,
                   write_around_mode, locals, bug, nr_bios, ghost>>

(* ------------------- writeboost_message: drop_caches ------------------- *)
(* mutant: the wait returns 0 whether or not a signal ended it *)
wait_event_interruptible_zero(interrupted) == "ok"

(* the value of wait_event_interruptible: 0 once the condition was seen
   true, -ERESTARTSYS when a signal ended the wait *)
wait_event_interruptible(interrupted) ==
    IF interrupted THEN "ERESTARTSYS" ELSE "ok"

(* ------------- a scratch allocation from buf_8_pool fails --------------- *)
(* bio_io_error ends the bio with -EIO whatever err the caller holds *)
bio_io_error(err) == "EIO"

(* do_process_write: wio.data could not be allocated; the function returns
   -ENOMEM before io_lock is taken and the map function passes it on *)
ProcessWriteNomem(t, k, shape, fua) ==
    /\ Alive /\ pc[t] = "idle" /\ nr_bios < MaxBios
    /\ ~write_around_mode
    /\ nr_bios' = nr_bios + 1
    /\ bio' = [bio EXCEPT ![t] = MkBio("W", k, shape, nr_bios + 1, fua)]
    /\ result' = [result EXCEPT ![t] = [err |-> "ENOMEM", payload |-> <<>>]]
    /\ pc' = [pc EXCEPT ![t] = "done"]
    /\ g_nomem' = [g_nomem EXCEPT ![t] = TRUE]
    /\ UNCHANGED <<core, rcvars, write_around_mode, res, wio, dirtiness, pbd, bug,
                   nr_fcb, size, force_drop, drop_pc, drop_r, g_atwake, g_atreturn,
                   msgv, ghost, grun>>

(* prepare_overwrite: read_mb could not allocate and returns NULL, which
   the caller takes for a failed read *)
PrepareOverwriteNomem(t) ==
    /\ Alive /\ pc[t] = "prepare_overwrite" /\ io_lock = t
    /\ last_flushed_id >= seg[mb_to_seg(res[t].found_mb)].id
    /\ prepare_overwrite_error(t, res[t].found_mb)
    /\ dirtiness' = Retired(dirtiness, t, NoDirtiness)
    /\ g_nomem' = [g_nomem EXCEPT ![t] = TRUE]
    /\ UNCHANGED <<current_seg, current_rambuf, job, flusher_wq, last_flushed_id,
                   last_writeback_id, barrier_ios, cache_dev, backing, next_id,
                   fcb_old, rcvars, write_around_mode, pbd, nr_bios,
                   g_quiet, g_ackseg, g_readseg, nr_fcb, size, force_drop, drop_pc,
                   drop_r, g_atwake, g_atreturn, msgv, grun>>

(* process_read on a block of the RAM buffer: fill_payload_by_backing could
   not allocate and returns -ENOMEM; the bio is ended by bio_io_error *)
ReadHitNomem(t) ==
    /\ Alive /\ pc[t] = "read_hit"
    /\ res[t].on_buffer
    /\ seg' = dec_inflight_ios(seg, mb_to_seg(res[t].found_mb))
    /\ result' = [result EXCEPT ![t] = [err |-> bio_io_error("ENOMEM"),
                                        payload |-> <<>>]]
    /\ pc' = [pc EXCEPT ![t] = "done"]
    /\ g_nomem' = [g_nomem EXCEPT ![t] = TRUE]
    /\ UNCHANGED <<mb, ht, current_seg, cursor, current_rambuf, rambuf, job,
                   flusher_wq, last_flushed_id, last_writeback_id, nr_dirty_caches,
                   barrier_ios, cache_dev, backing, io_lock, next_id, fcb_old,
                   rcvars, write_around_mode, bio, res, wio, dirtiness, pbd, bug,
                   nr_bios, ghost, nr_fcb, size, force_drop, drop_pc, drop_r,
                   g_atwake, g_atreturn, msgv, grun>>

(* process_read on a partly valid flushed block: the allocation fails in
   fill_payload_by_backing (err = -ENOMEM) or, for a dirty block, in read_mb
   (NULL, err = -EIO); either way the bio is ended by bio_io_error *)
ReadWaitForFlushingNomem(t, site) ==
    /\ Alive /\ pc[t] = "wait_for_flushing"
    /\ last_flushed_id >= found_seg_id(t)
    /\ dirtiness[t].data_bits # FullBits
    /\ site = "read_mb" => dirtiness[t].is_dirty
    /\ seg' = dec_inflight_ios(seg, mb_to_seg(res[t].found_mb))
    /\ result' = [result EXCEPT ![t] =
          [err |-> bio_io_error(IF site = "read_mb" THEN "EIO" ELSE "ENOMEM"),
           payload |-> <<>>]]
    /\ pc' = [pc EXCEPT ![t] = "done"]
    /\ g_nomem' = [g_nomem EXCEPT ![t] = TRUE]
    /\ UNCHANGED <<mb, ht, current_seg, cursor, current_rambuf, rambuf, job,
                   flusher_wq, last_flushed_id, last_writeback_id, nr_dirty_caches,
                   barrier_ios, cache_dev, backing, io_lock, next_id, fcb_old,
                   rcvars, write_around_mode, bio, res, wio, dirtiness, pbd, bug,
                   nr_bios, ghost, nr_fcb, size, force_drop, drop_pc, drop_r,
                   g_atwake, g_atreturn, msgv, grun>>

AllocSites == {"fill_payload_by_backing", "read_mb"}

(* ------------------- key/value reconfiguration messages ------------------- *)
(* the option names in the order of the consume_kv lines, with the range of
   _args and the is_static argument of each *)
OptNames == <<"writeback_threshold", "nr_max_batched_writeback",
              "update_sb_record_interval", "sync_data_interval",
              "read_cache_threshold", "write_around_mode", "nr_read_cache_cells">>
dm_args ==
    [writeback_threshold |-> [min |-> 0, max |-> 100, is_static |-> FALSE],
     nr_max_batched_writeback |-> [min |-> 1, max |-> 32, is_static |-> FALSE],
     update_sb_record_interval |-> [min |-> 0, max |-> 3600, is_static |-> FALSE],
     sync_data_interval |-> [min |-> 0, max |-> 3600, is_static |-> FALSE],
     read_cache_threshold |-> [min |-> 0, max |-> 127, is_static |-> FALSE],
     write_around_mode |-> [min |-> 0, max |-> 1, is_static |-> TRUE],
     nr_read_cache_cells |-> [min |-> 1, max |-> 2048, is_static |-> TRUE]]

(* the words a message is made of: keys, among them one in another case and
   one that names no option, and values in decimal or not a number at all *)
MsgKeys == {OptNames[i] : i \in DOMAIN OptNames}
               \cup {"Read_Cache_Threshold", "no_such_option"}
MsgValues == {"0", "1", "128", "3601", "x"}
NoArg == "(null)"

(* sscanf(arg_str, "%u%c", ...) == 1: the number a word spells, NULL if none *)
sscanf_u(arg_str) ==
    CASE arg_str = "0" -> 0
      [] arg_str = "1" -> 1
      [] arg_str = "2" -> 2
      [] arg_str = "128" -> 128
      [] arg_str = "3601" -> 3601
      [] OTHER -> NULL

tolower(w) == IF w = "Read_Cache_Threshold" THEN "read_cache_threshold" ELSE w
strcasecmp(a, b) == IF tolower(a) = tolower(b) THEN 0 ELSE 1

(* dm_shift_arg: the next word, NoArg when the set is exhausted *)
dm_shift_arg(as) == IF as = <<>> THEN NoArg ELSE Head(as)
dm_consume_arg(as) == IF as = <<>> THEN as ELSE Tail(as)

(* dm_read_arg: the next word as a number within [arg.min, arg.max] *)
dm_read_arg(arg, as) ==
    LET arg_str == dm_shift_arg(as)
        value == sscanf_u(arg_str)
    IN  IF arg_str = NoArg \/ value = NULL \/ value < arg.min \/ value > arg.max
        THEN [r |-> "EINVAL", value |-> value]
        ELSE [r |-> "ok", value |-> value]

(* one consume_kv line; st.brk records the break out of the while loop *)
consume_kv_assign_first(st, name) ==
    IF st.brk \/ strcasecmp(st.key, name) # 0 THEN st
    ELSE IF st.argc = 0 THEN [st EXCEPT !.brk = TRUE]
    ELSE LET a == dm_read_arg(dm_args[name], st.as)
             o1 == IF a.value # NULL THEN [st.o EXCEPT ![name] = a.value] ELSE st.o
         IN  IF st.created /\ dm_args[name].is_static
             THEN [st EXCEPT !.o = o1, !.brk = TRUE]
             ELSE IF a.r # "ok"
             THEN [st EXCEPT !.o = o1, !.r = a.r, !.as = dm_consume_arg(st.as),
                             !.brk = TRUE]
             ELSE [st EXCEPT !.r = "ok", !.as = dm_consume_arg(st.as), !.o = o1]

consume_kv(st, name) ==
    IF st.brk \/ strcasecmp(st.key, name) # 0 THEN st
    ELSE IF st.argc = 0 THEN [st EXCEPT !.brk = TRUE]
    ELSE IF st.created /\ dm_args[name].is_static THEN [st EXCEPT !.brk = TRUE]
    ELSE LET a == dm_read_arg(dm_args[name], st.as)
         IN  IF a.r # "ok"
             THEN [st EXCEPT !.r = a.r, !.as = dm_consume_arg(st.as), !.brk = TRUE]
             ELSE [st EXCEPT !.r = "ok", !.as = dm_consume_arg(st.as),
                             !.o[name] = a.value]

RECURSIVE consume_kvs(_, _)
consume_kvs(st, names) ==
    IF names = <<>> THEN st ELSE consume_kvs(consume_kv(st, Head(names)), Tail(names))

(* the while loop over argc words of the arg set *)
RECURSIVE do_consume_optional_argv(_, _, _, _)
do_consume_optional_argv(o, as, argc, created) ==
    IF argc = 0 THEN [r |-> "ok", o |-> o]
    ELSE LET st == consume_kvs([o |-> o, key |-> dm_shift_arg(as),
                                as |-> dm_consume_arg(as), argc |-> argc - 1,
                                r |-> "EINVAL", brk |-> FALSE, created |-> created],
                               OptNames)
         IN  IF st.brk \/ st.r # "ok" THEN [r |-> st.r, o |-> st.o]
             ELSE do_consume_optional_argv(st.o, st.as, st.argc - 1, created)

(* the options as the handler sees them in wb *)
Options ==
    [writeback_threshold |-> opt.writeback_threshold,
     nr_max_batched_writeback |-> opt.nr_max_batched_writeback,
     update_sb_record_interval |-> opt.update_sb_record_interval,
     sync_data_interval |-> opt.sync_data_interval,
     read_cache_threshold |-> read_cache_threshold,
     write_around_mode |-> IF write_around_mode THEN 1 ELSE 0,
     nr_read_cache_cells |-> size]

MsgArgv == {<<k>> : k \in MsgKeys} \cup {<<k, v>> : k \in MsgKeys, v \in MsgValues}

(* writeboost_message with a key/value pair, on the created device *)
WriteboostMessage(argv) ==
    /\ Alive
    /\ LET ret == do_consume_optional_argv(Options, argv, 2, TRUE)
       IN  /\ msg_r' = ret.r
           /\ opt' = [f \in DOMAIN opt |-> ret.o[f]]
           /\ read_cache_threshold' = ret.o.read_cache_threshold
           /\ write_around_mode' = (ret.o.write_around_mode # 0)
           /\ size' = ret.o.nr_read_cache_cells
    /\ g_msg' = argv
    /\ UNCHANGED <<core, cells, rb_root, rc_cursor, last_sector, seqcount,
                   over_threshold, threshold, ack_count, rc_i, rc_pending,
                   locals, bug, nr_bios, nr_fcb, force_drop, drop_pc, drop_r,
                   g_atwake, g_atreturn, g_nomem, ghost, grun>>


(* the handler up to its wait *)
DropCaches ==
    /\ Alive /\ drop_pc \in {"idle", "returned"}
    /\ force_drop' = TRUE
    /\ drop_pc' = "wait_event"
    /\ drop_r' = "ok"
    /\ UNCHANGED <<core, rcvars, locals, write_around_mode, bug, nr_bios, nr_fcb,
                   size, g_atwake, g_atreturn, msgv, g_nomem, ghost, grun>>

(* the wait ends: the condition !nr_dirty_caches was seen true, or a signal
   arrived while it was false *)
DropWait(interrupted) ==
    /\ Alive /\ drop_pc = "wait_event"
    /\ IF interrupted THEN nr_dirty_caches # 0 ELSE nr_dirty_caches = 0
    /\ drop_r' = wait_event_interruptible(interrupted)
    /\ g_atwake' = nr_dirty_caches
    /\ drop_pc' = "woken"
    /\ UNCHANGED <<core, rcvars, locals, write_around_mode, bug, nr_bios, nr_fcb,
                   size, force_drop, g_atreturn, msgv, g_nomem, ghost, grun>>

(* force_drop = false; return r *)
DropReturn ==
    /\ Alive /\ drop_pc = "woken"
    /\ force_drop' = FALSE
    /\ g_atreturn' = nr_dirty_caches
    /\ drop_pc' = "returned"
    /\ UNCHANGED <<core, rcvars, locals, write_around_mode, bug, nr_bios, nr_fcb,
                   size, drop_r, g_atwake, msgv, g_nomem, ghost, grun>>

(* ------------- the device is removed and created again ----------------- *)
(* writeboost_postsuspend has flushed the transient data; writeboost_dtr and
   writeboost_ctr with the write_around_mode option wa follow.  resume
   rebuilds the index from the log on the cache device: it recovers the dirty
   metablocks only, and the read-cache cells are allocated afresh *)
Recreate(wa) ==
    /\ Alive
    /\ io_lock = NULL /\ \A p \in Procs : pc[p] = "idle"
    /\ nr_fcb >= 1
    /\ flusher_wq = <<>> /\ barrier_ios = <<>>
    /\ seg[current_seg].length = 0
    /\ last_flushed_id = seg[current_seg].id - 1
    /\ ~rc_pending
    /\ write_around_mode # wa
    /\ write_around_mode' = wa
    /\ mb' = [i \in MbIdx |->
                 IF mb[i].is_dirty THEN mb[i]
                 ELSE [sector |-> NoSector, is_dirty |-> FALSE, data_bits |-> {}]]
    /\ ht' = [k \in Keys |-> SelectSeq(ht[k], LAMBDA i : mb[i].is_dirty)]
    /\ cells' = [c \in CellIdx |-> [sector |-> NoSector, cancelled |-> FALSE,
                                    data |-> JunkBlock]]
    /\ rb_root' = {}
    /\ rc_cursor' = size
    /\ last_sector' = NoLast
    /\ seqcount' = 0
    /\ over_threshold' = FALSE
    /\ threshold' = IF read_cache_threshold # 0 THEN read_cache_threshold ELSE UINT_MAX
    /\ ack_count' = size
    /\ rc_i' = 0
    /\ UNCHANGED <<seg, current_seg, cursor, current_rambuf, rambuf, job,
                   flusher_wq, last_flushed_id, last_writeback_id,
                   nr_dirty_caches, barrier_ios, cache_dev, backing, io_lock,
                   next_id, fcb_old, read_cache_threshold, rc_pending, locals,
                   bug, nr_bios, nr_fcb, ctl, ghost, grun>>

Next ==
    \/ \E t \in Threads, k \in Keys, shape \in Shapes, fua \in BOOLEAN :
           ProcessWrite(t, k, shape, fua)
    \/ \E t \in Threads, io_ok \in BOOLEAN : PrepareOverwrite(t, io_ok)
    \/ \E t \in Threads : NewWritePos(t)
    \/ \E t \in Threads : CompleteProcessWrite(t)
    \/ \E t \in Threads : QueueBarrierIo(t)
    \/ \E t \in Threads : ProcessFlushBio(t)
    \/ \E p \in Procs : QueueFlushJob(p)
    \/ \E p \in Procs : AcquireNewRambuffer(p)
    \/ \E p \in Procs : AcquireNewSeg(p)
    \/ FcbLock
    \/ FcbCursorInit
    \/ FcbWaitForFlushing
    \/ Flush
    \/ Writeback
    \/ \E t \in Threads : Retire(t)
    \/ \E t \in Threads, k \in Keys, shape \in Shapes : ProcessWriteWa(t, k, shape)
    \/ \E t \in Threads : EndIoWa(t)
    \/ \E v \in 0 .. MaxThreshold : Message(v)
    \/ \E argv \in MsgArgv : WriteboostMessage(argv)
    \/ \E t \in Threads, k \in Keys, shape \in Shapes, fua \in BOOLEAN :
           ProcessWriteNomem(t, k, shape, fua)
    \/ \E t \in Threads : PrepareOverwriteNomem(t)
    \/ \E t \in Threads : ReadHitNomem(t)
    \/ \E t \in Threads, site \in AllocSites : ReadWaitForFlushingNomem(t, site)
    \/ \E t \in Threads, k \in Keys, shape \in Shapes : ProcessRead(t, k, shape)
    \/ \E t \in Threads, io_ok \in BOOLEAN : EndIoBacking(t, io_ok)
    \/ \E t \in Threads, io_ok \in BOOLEAN : ReadHit(t, io_ok)
    \/ \E t \in Threads, io_ok \in BOOLEAN : ReadWaitForFlushing(t, io_ok)
    \/ \E t \in Threads, io_ok \in BOOLEAN : EndIoReadSeg(t, io_ok)
    \/ ReadCacheProc
    \/ InjectReadCache
    \/ InjectStage
    \/ ReinitReadCacheCells
    \/ DropCaches
    \/ \E interrupted \in BOOLEAN : DropWait(interrupted)
    \/ DropReturn
    \/ \E wa \in BOOLEAN : Recreate(wa)

Spec == Init /\ [][Next]_vars

(* ---- the data path alone: plain writes, reads, the read cache, hand-offs ---- *)
(* the block the reads address: the first one of the device *)
DataKeys == {k \in Keys : k < SectorsPerBlock}

(* the write bios: every shape on the block that is read, whole blocks on the
   others, which fill the segments and bring the hand-offs about *)
DataWrites == (DataKeys \X Shapes) \cup ((Keys \ DataKeys) \X {<<0, 8>>})

DataNext ==
    \/ \E t \in Writers, w \in DataWrites : ProcessWrite(t, w[1], w[2], FALSE)
    \/ \E t \in Writers : PrepareOverwrite(t, TRUE)
    \/ \E t \in Writers : NewWritePos(t)
    \/ \E t \in Readers, k \in DataKeys, shape \in ReadShapes : ProcessRead(t, k, shape)
    \/ \E t \in Readers : EndIoBacking(t, TRUE)
    \/ \E t \in Readers : ReadHit(t, TRUE)
    \/ \E t \in Readers : ReadWaitForFlushing(t, TRUE)
    \/ \E t \in Readers : EndIoReadSeg(t, TRUE)
    \/ \E t \in Threads : Retire(t)
    \/ ReadCacheProc
    \/ InjectReadCache
    \/ InjectStage
    \/ ReinitReadCacheCells
    \/ \E p \in Procs : QueueFlushJob(p)
    \/ \E p \in Procs : AcquireNewRambuffer(p)
    \/ \E p \in Procs : AcquireNewSeg(p)
    \/ FcbLockIdle
    \/ FcbCursorInit
    \/ FcbWaitForFlushing
    \/ Flush
    \/ Writeback

(* one-cell batches, read_cache_threshold 1 *)
InitData == InitOf(1, FALSE, 1)

SpecData == InitData /\ [][DataNext]_vars

(* ---- the data path in both write modes ---- *)
ModesNext ==
    \/ DataNext
    \/ \E t \in Writers, w \in DataWrites : ProcessWriteWa(t, w[1], w[2])
    \/ \E t \in Writers : EndIoWa(t)

InitModes == \E wa \in BOOLEAN : InitOf(1, wa, 1)

SpecModes == InitModes /\ [][ModesNext]_vars

(* ---- the data path in both write modes, every device I/O may fail ---- *)
\* full-size and half-block writes
FailShapes == {<<0, 8>>, <<0, 4>>}

FailNext ==
    \/ \E t \in Writers, k \in Keys, shape \in FailShapes :
           ProcessWrite(t, k, shape, FALSE)
    \/ \E t \in Writers, io_ok \in BOOLEAN : PrepareOverwrite(t, io_ok)
    \/ \E t \in Writers : NewWritePos(t)
    \/ \E t \in Writers, k \in Keys : ProcessWriteWa(t, k, <<0, 8>>)
    \/ \E t \in Writers : EndIoWa(t)
    \/ \E t \in Readers, k \in DataKeys : ProcessRead(t, k, <<0, 8>>)
    \/ \E t \in Readers, io_ok \in BOOLEAN : EndIoBacking(t, io_ok)
    \/ \E t \in Readers, io_ok \in BOOLEAN : ReadHit(t, io_ok)
    \/ \E t \in Readers, io_ok \in BOOLEAN : ReadWaitForFlushing(t, io_ok)
    \/ \E t \in Readers, io_ok \in BOOLEAN : EndIoReadSeg(t, io_ok)
    \/ \E t \in Threads : Retire(t)
    \/ ReadCacheProc
    \/ InjectReadCache
    \/ InjectStage
    \/ ReinitReadCacheCells
    \/ \E p \in Procs : QueueFlushJob(p)
    \/ \E p \in Procs : AcquireNewRambuffer(p)
    \/ \E p \in Procs : AcquireNewSeg(p)
    \/ FcbLockIdle
    \/ FcbCursorInit
    \/ FcbWaitForFlushing
    \/ Flush
    \/ Writeback

SpecFail == InitModes /\ [][FailNext]_vars

(* ---- the flush pipeline alone: full writes and FUA writes of one block,
        flush bios ---- *)
BarrierNext ==
    \/ \E t \in Threads, k \in DataKeys, fua \in BOOLEAN :
           ProcessWrite(t, k, <<0, 8>>, fua)
    \/ \E t \in Threads : NewWritePos(t)
    \/ \E t \in Preempted : CompleteProcessWrite(t)
    \/ \E t \in Threads : QueueBarrierIo(t)
    \/ \E t \in Threads : ProcessFlushBio(t)
    \/ \E t \in Threads : Retire(t)
    \/ \E p \in Procs \ {Worker} : QueueFlushJob(p)
    \/ \E p \in Procs \ {Worker} : AcquireNewRambuffer(p)
    \/ \E p \in Procs \ {Worker} : AcquireNewSeg(p)
    \/ FcbLock
    \/ FcbCursorInit
    \/ FcbWaitForFlushing
    \/ Flush
    \/ Writeback

InitBarrier == InitOf(0, FALSE, 1)

SpecBarrier == InitBarrier /\ [][BarrierNext]_vars

(* ---- drop_caches against writes of one block, the flusher and the
        writeback daemon ---- *)
DropNext ==
    \/ \E t \in Threads, k \in DataKeys, shape \in FailShapes :
           ProcessWrite(t, k, shape, FALSE)
    \/ \E t \in Threads : PrepareOverwrite(t, TRUE)
    \/ \E t \in Threads : NewWritePos(t)
    \/ \E t \in Preempted : CompleteProcessWrite(t)
    \/ \E p \in Procs \ {Worker} : QueueFlushJob(p)
    \/ \E p \in Procs \ {Worker} : AcquireNewRambuffer(p)
    \/ \E p \in Procs \ {Worker} : AcquireNewSeg(p)
    \/ FcbLock
    \/ FcbCursorInit
    \/ FcbWaitForFlushing
    \/ Flush
    \/ Writeback
    \/ DropCaches
    \/ \E interrupted \in BOOLEAN : DropWait(interrupted)
    \/ DropReturn

SpecDrop == InitBarrier /\ [][DropNext]_vars

(* ---- scratch allocations that fail, against writes, reads and the flusher ---- *)
NomemNext ==
    \/ \E t \in Writers, k \in Keys, shape \in Shapes :
           ProcessWrite(t, k, shape, FALSE)
    \/ \E t \in Writers, k \in Keys : ProcessWriteNomem(t, k, <<0, 4>>, FALSE)
    \/ \E t \in Writers : PrepareOverwrite(t, TRUE)
    \/ \E t \in Writers : PrepareOverwriteNomem(t)
    \/ \E t \in Writers : NewWritePos(t)
    \/ \E t \in Threads, k \in Keys, shape \in ReadShapes : ProcessRead(t, k, shape)
    \/ \E t \in Threads : EndIoBacking(t, TRUE)
    \/ \E t \in Threads : ReadHit(t, TRUE)
    \/ \E t \in Threads : ReadHitNomem(t)
    \/ \E t \in Threads : ReadWaitForFlushing(t, TRUE)
    \/ \E t \in Threads, site \in AllocSites : ReadWaitForFlushingNomem(t, site)
    \/ \E t \in Threads : EndIoReadSeg(t, TRUE)
    \/ \E t \in Threads : Retire(t)
    \/ \E p \in Procs \ {Worker} : QueueFlushJob(p)
    \/ \E p \in Procs \ {Worker} : AcquireNewRambuffer(p)
    \/ \E p \in Procs \ {Worker} : AcquireNewSeg(p)
    \/ FcbLockIdle
    \/ FcbCursorInit
    \/ FcbWaitForFlushing
    \/ Flush

SpecNomem == InitBarrier /\ [][NomemNext]_vars

(* ---- slots reused while reads hold references: 4 KiB writes and reads,
        two calls of flush_current_buffer ---- *)
ReuseNext ==
    \/ \E t \in Writers, k \in Keys : ProcessWrite(t, k, <<0, 8>>, FALSE)
    \/ \E t \in Writers : NewWritePos(t)
    \/ \E t \in Threads, k \in Keys : ProcessRead(t, k, <<0, 8>>)
    \/ \E t \in Threads : EndIoBacking(t, TRUE)
    \/ \E t \in Threads : ReadHit(t, TRUE)
    \/ \E t \in Threads : ReadWaitForFlushing(t, TRUE)
    \/ \E t \in Threads : EndIoReadSeg(t, TRUE)
    \/ \E t \in Threads : Retire(t)
    \/ \E p \in Procs \ {Worker} : QueueFlushJob(p)
    \/ \E p \in Procs \ {Worker} : AcquireNewRambuffer(p)
    \/ \E p \in Procs \ {Worker} : AcquireNewSeg(p)
    \/ FcbLockUpTo(MaxFcbReuse)
    \/ FcbCursorInit
    \/ FcbWaitForFlushing
    \/ Flush
    \/ Writeback

SpecReuse == InitBarrier /\ [][ReuseNext]_vars

(* ---- key/value messages on a created device ---- *)
MessageNext == \E argv \in MsgArgv : WriteboostMessage(argv)

SpecMessage == InitData /\ [][MessageNext]_vars

(* ---- the read cache: batches of one or two cells, 4 KiB reads and writes ---- *)
CacheNext ==
    \/ \E t \in Threads, k \in Keys : ProcessRead(t, k, <<0, 8>>)
    \/ \E t \in Threads : EndIoBacking(t, TRUE)
    \/ \E t \in Threads : ReadHit(t, TRUE)
    \/ \E t \in Threads : ReadWaitForFlushing(t, TRUE)
    \/ \E t \in Threads : EndIoReadSeg(t, TRUE)
    \/ \E t \in Threads : Retire(t)
    \/ ReadCacheProc
    \/ InjectReadCache
    \/ InjectStage
    \/ ReinitReadCacheCells
    \/ \E t \in Writers, k \in Keys : ProcessWrite(t, k, <<0, 8>>, FALSE)
    \/ \E t \in Writers : NewWritePos(t)
    \/ \E p \in Writers \cup {Worker} : QueueFlushJob(p)
    \/ \E p \in Writers \cup {Worker} : AcquireNewRambuffer(p)
    \/ \E p \in Writers \cup {Worker} : AcquireNewSeg(p)
    \/ Flush
    \/ Writeback

InitCache ==
    \E rct \in 1 .. MaxThreshold, n \in 1 .. NrReadCacheCells : InitOf(rct, FALSE, n)

SpecCache == InitCache /\ [][CacheNext]_vars

(* ---- writers that lose the processor before complete_process_write,
        against other writers, flush_current_buffer and the read cache ---- *)
CompleteNext ==
    \/ \E t \in Threads, k \in Keys : ProcessWrite(t, k, <<0, 8>>, FALSE)
    \/ \E t \in Threads : NewWritePos(t)
    \/ \E t \in Preempted : CompleteProcessWrite(t)
    \/ \E t \in Readers, k \in DataKeys : ProcessRead(t, k, <<0, 8>>)
    \/ \E t \in Readers : EndIoBacking(t, TRUE)
    \/ \E t \in Readers : ReadHit(t, TRUE)
    \/ \E t \in Readers : ReadWaitForFlushing(t, TRUE)
    \/ \E t \in Readers : EndIoReadSeg(t, TRUE)
    \/ \E t \in Threads : Retire(t)
    \/ ReadCacheProc
    \/ InjectReadCache
    \/ InjectStage
    \/ ReinitReadCacheCells
    \/ \E p \in Procs : QueueFlushJob(p)
    \/ \E p \in Procs : AcquireNewRambuffer(p)
    \/ \E p \in Procs : AcquireNewSeg(p)
    \/ FcbLock
    \/ FcbCursorInit
    \/ FcbWaitForFlushing
    \/ Flush
    \/ Writeback

SpecComplete == InitData /\ [][CompleteNext]_vars

(* ---- a device used in write-back mode, suspended, removed and created
        again in write-around mode ---- *)
RecreateNext ==
    \/ \E t \in Writers, k \in Keys, shape \in FailShapes :
           ProcessWrite(t, k, shape, FALSE)
    \/ \E t \in Writers : PrepareOverwrite(t, TRUE)
    \/ \E t \in Writers : NewWritePos(t)
    \/ \E p \in Procs \ {Worker} : QueueFlushJob(p)
    \/ \E p \in Procs \ {Worker} : AcquireNewRambuffer(p)
    \/ \E p \in Procs \ {Worker} : AcquireNewSeg(p)
    \/ FcbLockIdle
    \/ FcbCursorInit
    \/ FcbWaitForFlushing
    \/ Flush
    \/ Writeback
    \/ Recreate(TRUE)
    \/ \E t \in Writers, k \in Keys, shape \in FailShapes : ProcessWriteWa(t, k, shape)
    \/ \E t \in Writers : EndIoWa(t)
    \/ \E t \in Threads, k \in Keys : ProcessRead(t, k, <<0, 8>>)
    \/ \E t \in Threads : EndIoBacking(t, TRUE)
    \/ \E t \in Threads : ReadHit(t, TRUE)
    \/ \E t \in Threads : ReadWaitForFlushing(t, TRUE)
    \/ \E t \in Threads : EndIoReadSeg(t, TRUE)
    \/ \E t \in Threads : Retire(t)

SpecRecreate == InitBarrier /\ [][RecreateNext]_vars

(* ---- read_cache_threshold messages, zero included, against 4 KiB reads
        and the read-cache worker ---- *)
ThresholdNext ==
    \/ \E v \in 0 .. MaxThreshold : Message(v)
    \/ \E t \in Readers, k \in Keys : ProcessRead(t, k, <<0, 8>>)
    \/ \E t \in Readers : EndIoBacking(t, TRUE)
    \/ \E t \in Readers : ReadHit(t, TRUE)
    \/ \E t \in Readers : ReadWaitForFlushing(t, TRUE)
    \/ \E t \in Readers : EndIoReadSeg(t, TRUE)
    \/ \E t \in Threads : Retire(t)
    \/ ReadCacheProc
    \/ InjectReadCache
    \/ InjectStage
    \/ ReinitReadCacheCells
    \/ QueueFlushJob(Worker)
    \/ AcquireNewRambuffer(Worker)
    \/ AcquireNewSeg(Worker)
    \/ Flush
    \/ Writeback

InitThreshold ==
    \E rct \in 0 .. MaxThreshold, n \in 1 .. NrReadCacheCells : InitOf(rct, FALSE, n)

SpecThreshold == InitThreshold /\ [][ThresholdNext]_vars

(* ---- every path that takes io_lock or waits, in both write modes, with
        the flusher, the writeback daemon, the device I/O and every handler
        that has started running on ---- *)
(* bios submitted in a behaviour of SpecLive *)
LiveBios == 2

(* calls of flush_current_buffer in a behaviour of SpecLive *)
LiveFcb == 3

LiveNext ==
    \/ \E t \in Writers, k \in Keys, shape \in FailShapes :
           nr_bios < LiveBios /\ ProcessWrite(t, k, shape, FALSE)
    \/ \E t \in Writers : PrepareOverwrite(t, TRUE)
    \/ \E t \in Writers : NewWritePos(t)
    \/ \E t \in Writers, k \in Keys :
           nr_bios < LiveBios /\ ProcessWriteWa(t, k, <<0, 8>>)
    \/ \E t \in Writers : EndIoWa(t)
    \/ \E t \in Readers, k \in DataKeys :
           nr_bios < LiveBios /\ ProcessRead(t, k, <<0, 8>>)
    \/ \E t \in Readers : EndIoBacking(t, TRUE)
    \/ \E t \in Readers : ReadHit(t, TRUE)
    \/ \E t \in Readers : ReadWaitForFlushing(t, TRUE)
    \/ \E t \in Readers : EndIoReadSeg(t, TRUE)
    \/ \E t \in Threads : Retire(t)
    \/ ReadCacheProc
    \/ InjectReadCache
    \/ InjectStage
    \/ ReinitReadCacheCells
    \/ \E p \in Procs : QueueFlushJob(p)
    \/ \E p \in Procs : AcquireNewRambuffer(p)
    \/ \E p \in Procs : AcquireNewSeg(p)
    \/ FcbLockUpTo(LiveFcb)
    \/ FcbCursorInit
    \/ FcbWaitForFlushing
    \/ Flush
    \/ Writeback

(* the step a handler that has started takes next: its device I/O completes,
   its wait ends, or it gets io_lock *)
Continue(p) ==
    \/ p \in Threads /\ \/ PrepareOverwrite(p, TRUE)
                        \/ NewWritePos(p)
                        \/ CompleteProcessWrite(p)
                        \/ EndIoWa(p)
                        \/ EndIoBacking(p, TRUE)
                        \/ ReadHit(p, TRUE)
                        \/ ReadWaitForFlushing(p, TRUE)
                        \/ EndIoReadSeg(p, TRUE)
    \/ p = Worker /\ \/ ReadCacheProc
                     \/ InjectReadCache
                     \/ InjectStage
                     \/ ReinitReadCacheCells
    \/ p = Fcb /\ (FcbCursorInit \/ FcbWaitForFlushing)
    \/ QueueFlushJob(p)
    \/ AcquireNewRambuffer(p)
    \/ AcquireNewSeg(p)

(* the flusher completes the jobs queued, the writeback daemon advances, and
   every handler that can take its next step does so *)
Fairness ==
    /\ WF_vars(Flush)
    /\ WF_vars(Writeback)
    /\ \A p \in Procs : WF_vars(Continue(p))

SpecLive == InitModes /\ [][LiveNext]_vars /\ Fairness

(* ---------------------------- properties ------------------------------- *)
(* a read that has completed without error and without a write to its block
   having been issued since the read itself was issued *)
QuietReadDone(t) ==
    /\ pc[t] = "done" /\ bio[t].rw = "R" /\ result[t].err = "ok"
    /\ g_quiet[t]

ReadByte(t, i) == result[t].payload[i - bio[t].offset]

(* sectors of block k some acknowledged write has covered: payloads are the
   positive serial numbers of the write bios, the backing device starts at 0 *)
Written(k) == {i \in Sectors : g_content[k][i] > 0}

(* C1: after a full-block write of key k has been acknowledged, a read of k
   with no write to k in between returns the written payload, whichever of
   the RAM buffer and the flushed segment serves it and whatever writes to
   other keys, hand-offs, flush completions and injections came in between *)
C1_WriteThenRead ==
    \A t \in Threads :
        (QuietReadDone(t) /\ g_lastbits[BioKey(bio[t])] = FullBits)
        => \A i \in BioBits(bio[t]) :
               /\ ReadByte(t, i) = g_content[BioKey(bio[t])][i]
               /\ ReadByte(t, i) > 0

(* a full read of a fully written block was served by the cache device *)
C1_Witness ==
    \E t \in Threads :
        /\ QuietReadDone(t)
        /\ pbd[t].type = "PBD_READ_SEG"
        /\ BioBits(bio[t]) = FullBits
        /\ g_lastbits[BioKey(bio[t])] = FullBits

(* C2: a read after a partial write returns the written bytes in the sectors
   the write covered and the contents from before the write in the others *)
C2_PartialWriteMerge ==
    \A t \in Threads :
        (/\ QuietReadDone(t)
         /\ g_lastbits[BioKey(bio[t])] # {}
         /\ g_lastbits[BioKey(bio[t])] # FullBits)
        => \A i \in BioBits(bio[t]) :
               ReadByte(t, i) = g_content[BioKey(bio[t])][i]

(* a full read of a partly written block, rebuilt from the backing device and
   the flushed cache block *)
C2_Witness ==
    \E t \in Threads :
        /\ QuietReadDone(t)
        /\ g_lastbits[BioKey(bio[t])] # {}
        /\ g_lastbits[BioKey(bio[t])] # FullBits
        /\ BioBits(bio[t]) = FullBits
        /\ Written(BioKey(bio[t])) = g_lastbits[BioKey(bio[t])]
        /\ res[t] # NoRes /\ ~res[t].on_buffer
        /\ Written(BioKey(bio[t])) \notin {{}, FullBits}

(* a barrier bio or a FUA write that has been acknowledged *)
FlushBioDone(t) == pc[t] = "done" /\ bio[t].rw = "F"

FuaDone(t) == pc[t] = "done" /\ bio[t].rw = "W" /\ bio[t].fua

(* C3: a flush bio is acknowledged only once the segment that was current
   when process_flush_bio queued it has been flushed to the cache device *)
C3_BarrierAfterFlush ==
    \A t \in Threads :
        FlushBioDone(t) =>
            /\ last_flushed_id >= g_barseg[t]
            /\ g_ackseg[t] >= g_barseg[t]

(* a flush bio queued on a segment holding writes, acknowledged by the flush
   of that very segment *)
C3_Witness ==
    \E t \in Threads :
        FlushBioDone(t) /\ g_barseg[t] >= 2 /\ g_ackseg[t] = g_barseg[t]

(* C4 as stated: a FUA write is released by the flush of the segment it was
   staged into, never by a later segment's flush *)
C4_ExactSegment ==
    \A t \in Threads : FuaDone(t) => g_ackseg[t] = g_barseg[t]

(* C4 as the code has it: a FUA write is released by the flush of the segment
   it was staged into or of a later one, and never before its own segment
   is on the cache device *)
C4_NotBeforeOwnSegment ==
    \A t \in Threads :
        FuaDone(t) =>
            /\ g_ackseg[t] >= g_barseg[t]
            /\ last_flushed_id >= g_barseg[t]

(* a FUA write released by the flush of a later segment than its own *)
C4_Witness ==
    \E t \in Threads : FuaDone(t) /\ g_ackseg[t] > g_barseg[t]

(* the flush jobs in flusher_wq carry consecutive ids from last_flushed_id + 1 *)
QueueInOrder ==
    \A i \in 1 .. Len(flusher_wq) :
        seg[job[flusher_wq[i]].seg].id = last_flushed_id + i

(* C5: flush jobs are submitted in increasing segment id, and last_flushed_id
   advances by exactly one per completed flush job *)
C5_FlushOrder ==
    /\ []QueueInOrder
    /\ [][last_flushed_id' # last_flushed_id
            => last_flushed_id' = last_flushed_id + 1]_vars

(* two flush jobs wait in the queue behind one that has completed *)
C5_Witness == Len(flusher_wq) = 2 /\ last_flushed_id >= 1

(* the current RAM buffer has a pending flush job only inside the hand-off,
   between queue_flush_job and __acquire_new_rambuffer *)
PendingOnlyInHandoff ==
    job[current_rambuf] # NoJob =>
        \E p \in Procs : io_lock = p /\ pc[p] = "acquire_new_rambuffer"

(* C7: a RAM buffer is neither zeroed nor written from the submission of its
   flush job to the job's completion, and the RAM buffer of segment id is
   acquired only once segment id - NR_RAMBUF_POOL has been flushed *)
C7_RambufExclusive ==
    /\ []PendingOnlyInHandoff
    /\ [][/\ \A r \in RambufIdx : job[r] # NoJob => rambuf'[r] = rambuf[r]
          /\ \A p \in Procs :
                (pc[p] = "acquire_new_rambuffer" /\ pc'[p] # pc[p])
                => last_flushed_id >= SUB_ID(next_id, NR_RAMBUF_POOL)]_vars

(* a hand-off blocked in __acquire_new_rambuffer on the flusher *)
C7_Witness ==
    \E p \in Procs :
        /\ pc[p] = "acquire_new_rambuffer"
        /\ last_flushed_id < SUB_ID(next_id, NR_RAMBUF_POOL)
        /\ job[rambuf_of_id(next_id)] # NoJob

(* the cache device is read on behalf of a read hit: the bio is remapped to
   it, or read_mb is run on leaving wait_for_flushing *)
ReadsCacheDevFlushed(t) ==
    /\ last_flushed_id >= g_readseg[t]
    /\ seg[mb_to_seg(res[t].found_mb)].id = g_readseg[t]

(* C6: a read hit on a segment that is not the current one reads the cache
   device, by remapping or by read_mb, only once last_flushed_id has reached
   the id the segment had at the lookup *)
C6_ReadWaitsForFlush ==
    /\ [](\A t \in Threads : pc[t] = "read_cache_dev" => ReadsCacheDevFlushed(t))
    /\ [][\A t \in Threads :
             (pc[t] = "wait_for_flushing" /\ pc'[t] # pc[t])
             => ReadsCacheDevFlushed(t)]_vars

(* a read hit waiting for the flush of the segment it found *)
C6_Witness ==
    \E t \in Threads :
        pc[t] = "wait_for_flushing" /\ last_flushed_id < g_readseg[t]

InIndex(i) == \E k \in Keys : InList(ht[k], i)

(* C8 (I2): nr_dirty_caches is the number of metablocks whose is_dirty is
   set, and is never negative *)
C8_DirtyCount ==
    /\ nr_dirty_caches = Cardinality({i \in MbIdx : mb[i].is_dirty})
    /\ nr_dirty_caches >= 0

(* the counter after prepare_overwrite has marked an old metablock clean
   that writeback had not reached, with the new metablock dirty *)
C8_Witness ==
    /\ nr_dirty_caches >= 1
    /\ \E i \in MbIdx :
          /\ ~mb[i].is_dirty /\ mb[i].data_bits # {} /\ ~InIndex(i)
          /\ seg[mb_to_seg(i)].id > last_writeback_id

(* no handler is running: every thread, the read-cache worker and
   flush_current_buffer are idle *)
Quiescent == io_lock = NULL /\ \A p \in Procs : pc[p] = "idle"

(* C9 (I1) as stated: at quiescent points is_dirty holds exactly when
   data_bits is not 0 *)
C9_DirtyIffBits ==
    Quiescent => \A i \in MbIdx : mb[i].is_dirty <=> mb[i].data_bits # {}

(* C9 as the code has it: a dirty metablock has data_bits other than 0;
   a clean one may keep or be given data_bits *)
C9_DirtyHasBits ==
    \A i \in MbIdx : mb[i].is_dirty => mb[i].data_bits # {}

(* quiescent, with a dirty metablock and a clean injected one of data_bits 255 *)
C9_Witness ==
    /\ Quiescent
    /\ \E i \in MbIdx : mb[i].is_dirty
    /\ \E j \in MbIdx :
          /\ ~mb[j].is_dirty /\ mb[j].data_bits = FullBits /\ InIndex(j)
          /\ seg[mb_to_seg(j)].id > last_writeback_id

(* C10 (I4): the hash index holds at most one metablock per key, each
   registered metablock carries the key it is registered under, and so a
   lookup of k returns only a metablock whose sector is k *)
C10_IndexUnique ==
    \A k \in Keys :
        /\ Len(ht[k]) <= 1
        /\ \A j \in 1 .. Len(ht[k]) : mb[ht[k][j]].sector = k
        /\ ht_lookup(ht, mb, k) # NULL => mb[ht_lookup(ht, mb, k)].sector = k

(* both keys are indexed, one by a write and one by a read-cache injection *)
C10_Witness ==
    /\ \A k \in Keys : Len(ht[k]) = 1
    /\ \E k \in Keys : mb[ht[k][1]].is_dirty
    /\ \E k \in Keys : ~mb[ht[k][1]].is_dirty /\ mb[ht[k][1]].data_bits = FullBits

(* the metablocks of segment s that are registered in the hash index *)
Indexed(s) == {i \in SegMbs(s) : InIndex(i)}

(* C11 (I3): no segment has more metablocks in the hash index than its
   length; a segment whose length cursor_init has reset to 0 has none *)
C11_IndexedWithinLength ==
    \A s \in SegIdx : Cardinality(Indexed(s)) <= seg[s].length

(* flush_current_buffer has run cursor_init on the segment it acquired, a
   segment reused for a later lap, while another
   segment has as many metablocks in the index as its length *)
C11_Witness ==
    /\ pc[Fcb] = "fcb_wait_for_flushing"
    /\ seg[current_seg].id > NrSegments
    /\ seg[current_seg].length = 0
    /\ \E s \in SegIdx : seg[s].length >= 1 /\ Cardinality(Indexed(s)) = seg[s].length

(* the segment has been queued to the flusher and not re-acquired since *)
Handed(s) ==
    \/ last_flushed_id >= seg[s].id
    \/ \E i \in 1 .. Len(flusher_wq) : job[flusher_wq[i]].seg = s

(* the metablock is an allocated slot of the RAM-buffered current segment *)
OnRambuffer(i) ==
    /\ is_on_buffer(i)
    /\ mb_idx_inseg(i) < seg[current_seg].length
    /\ ~Handed(current_seg)

DirtinessGrows(i) ==
    /\ mb[i].is_dirty => mb'[i].is_dirty
    /\ mb[i].data_bits \subseteq mb'[i].data_bits

DirtinessShrinks(i) ==
    /\ mb'[i].is_dirty => mb[i].is_dirty
    /\ mb'[i].data_bits \subseteq mb[i].data_bits

(* C12: while a metablock is on the RAM buffer of the current segment, no step
   turns its is_dirty from true to false or removes a bit from its data_bits;
   once its segment is handed to the flusher, no step turns its is_dirty from
   false to true or adds a bit to its data_bits, until the segment is
   re-acquired *)
C12_DirtinessMonotone ==
    [][\A i \in MbIdx :
          /\ OnRambuffer(i) => DirtinessGrows(i)
          /\ Handed(mb_to_seg(i)) => DirtinessShrinks(i)]_vars

(* a metablock whose data_bits two partial writes grew on the RAM buffer has
   been flushed, and the writeback daemon has turned its is_dirty off *)
C12_Witness ==
    \E i \in MbIdx :
        /\ Handed(mb_to_seg(i)) /\ mb_to_seg(i) # current_seg
        /\ seg[mb_to_seg(i)].id >= 1
        /\ ~mb[i].is_dirty
        /\ mb[i].data_bits = {0, 1, 2, 3, 7}

(* the bios holding a reference on segment s: a write merging in
   prepare_overwrite, and a read hit from cache_lookup up to its completion *)
InflightHolders(s) ==
    {t \in Threads :
        /\ pc[t] \in {"prepare_overwrite", "read_hit", "wait_for_flushing",
                      "read_cache_dev"}
        /\ mb_to_seg(res[t].found_mb) = s}

(* C13: the increments and decrements of nr_inflight_ios balance on every path,
   the failing ones included: each segment's counter equals the number of bios
   that hold a reference on it, so it is never negative and it is 0 once every
   submitted bio has completed *)
C13_InflightBalance ==
    \A s \in SegIdx : seg[s].nr_inflight_ios = Cardinality(InflightHolders(s))

(* a write has failed in prepare_overwrite while a read hit of the other
   thread still holds the only reference *)
C13_Witness ==
    \E t, u \in Threads :
        /\ pc[t] = "done" /\ bio[t].rw = "W" /\ result[t].err = "EIO"
        /\ pc[u] \in {"read_hit", "wait_for_flushing", "read_cache_dev"}
        /\ seg[mb_to_seg(res[u].found_mb)].nr_inflight_ios = 1

(* the points where a handler waits for a flush or reads a device synchronously *)
BlockingPcs == {"prepare_overwrite", "acquire_new_rambuffer", "wait_for_flushing"}

(* C14 as stated: no thread waits for a segment flush or reads a device for a
   partial merge while it holds io_lock *)
C14_NoWaitUnderLock ==
    \A p \in Procs : pc[p] \in BlockingPcs => io_lock # p

(* C14 as the code has it: a read waits for the flush and reconstructs without
   io_lock and with a reference on the found segment; a write runs
   prepare_overwrite (wait_for_flushing, read_mb) holding io_lock and a
   reference on the found segment *)
C14_ReadsWaitUnlocked ==
    \A t \in Threads :
        /\ pc[t] \in {"read_hit", "wait_for_flushing", "read_cache_dev"} =>
              /\ io_lock # t
              /\ seg[mb_to_seg(res[t].found_mb)].nr_inflight_ios >= 1
        /\ pc[t] = "prepare_overwrite" =>
              /\ io_lock = t
              /\ seg[mb_to_seg(res[t].found_mb)].nr_inflight_ios >= 1

(* a read waits for a segment that is not flushed yet while a write, holding
   io_lock, waits in prepare_overwrite *)
C14_Witness ==
    \E t, u \in Threads :
        /\ pc[t] = "wait_for_flushing"
        /\ last_flushed_id < seg[mb_to_seg(res[t].found_mb)].id
        /\ pc[u] = "prepare_overwrite" /\ io_lock = u

(* C15 as stated: whenever the drop_caches handler returns, nr_dirty_caches is
   0 at the moment of return and force_drop is false again *)
C15_ReturnsWithNoDirty ==
    drop_pc = "returned" => g_atreturn = 0 /\ ~force_drop

(* C15 as the code has it: force_drop is true while the handler waits and
   false once it has returned, and a handler that returns 0 saw
   nr_dirty_caches at 0 when its wait ended *)
C15_ReturnZeroSawNoDirty ==
    /\ drop_pc \in {"wait_event", "woken"} => force_drop
    /\ drop_pc = "returned" => ~force_drop
    /\ drop_pc \in {"woken", "returned"} /\ drop_r = "ok" => g_atwake = 0

(* the handler has returned 0 after the writeback daemon cleaned a segment
   that held a written block *)
C15_Witness ==
    /\ drop_pc = "returned" /\ drop_r = "ok"
    /\ g_atreturn = 0
    /\ \E s \in SegIdx : seg[s].length >= 1 /\ last_writeback_id >= seg[s].id

(* C16: in write-around mode a write to key k goes to the backing device and
   leaves no metablock and no read-cache cell for k behind, so a read of k
   issued after the write has completed, with no other write to k in between,
   returns what the backing device holds: the written payload in the sectors
   the writes covered *)
C16_WriteAroundRead ==
    write_around_mode =>
        \A t \in Threads :
            (QuietReadDone(t) /\ Written(BioKey(bio[t])) # {})
            => \A i \in BioBits(bio[t]) :
                   ReadByte(t, i) = g_content[BioKey(bio[t])][i]

(* the batch worker has not yet decided on cell c of the current batch *)
Undecided(c) ==
    /\ c \in rb_root
    /\ pc[Worker] # "reinit_read_cache_cells"
    /\ c >= rc_i

(* the step is inject_read_cache registering the cell at rc_i *)
Injects ==
    /\ pc[Worker] \in {"inject", "inject_stage"}
    /\ pc'[Worker] # pc[Worker] \/ rc_i' # rc_i
    /\ ht' # ht

(* C17: a cell whose key has entered the index since the cell was reserved (a
   write to the key was staged) is cancelled before the worker reaches it, and
   inject_read_cache registers only a cell that is not cancelled and whose key
   is not in the index; in write-back mode the data it registers is the
   block's current content, so no newer written data gives way to older read
   data *)
C17_NoStalePromotion ==
    /\ [](\A c \in CellIdx :
             (Undecided(c) /\ ht_lookup(ht, mb, cells[c].sector) # NULL)
             => cells[c].cancelled)
    /\ [][Injects =>
             /\ ~cells[rc_i].cancelled
             /\ ht_lookup(ht, mb, cells[rc_i].sector) = NULL
             /\ ht_lookup(ht', mb', cells[rc_i].sector) # NULL
             /\ ~write_around_mode =>
                    cells[rc_i].data = g_content[cells[rc_i].sector]]_vars

(* the worker is about to skip a cell that a staged write cancelled: the
   written block is dirty in the index *)
C17_Witness ==
    /\ pc[Worker] = "inject"
    /\ cells[rc_i].cancelled
    /\ ht_lookup(ht, mb, cells[rc_i].sector) # NULL
    /\ mb[ht_lookup(ht, mb, cells[rc_i].sector)].is_dirty

(* the step is a read miss of thread t being remapped to the backing device *)
Misses(t) == pc[t] = "idle" /\ pc'[t] = "read_backing"

(* C18: the cells of a batch have pairwise different sectors: a miss on a
   sector that already has a cell in the batch, cancelled or not, reserves no
   cell, so the worker injects at most one cell per key and batch *)
C18_OneCellPerSector ==
    /\ [](\A c, d \in rb_root : c # d => cells[c].sector # cells[d].sector)
    /\ [][\A t \in Threads :
             (Misses(t) /\ lookup_read_cache_cell(bio'[t].sector) # NULL)
             => /\ UNCHANGED <<rb_root, rc_cursor, cells>>
                /\ pbd'[t].type = "PBD_NONE"]_vars
    /\ [][Injects =>
             \A d \in rb_root \ {rc_i} : cells[d].sector # cells[rc_i].sector]_vars

(* a second miss on a sector reserved nothing although the batch still had a
   free cell *)
C18_Witness ==
    \E t \in Threads :
        /\ pc[t] = "read_backing" /\ io_fullsize(bio[t])
        /\ pbd[t].type = "PBD_NONE"
        /\ rc_cursor # 0 /\ read_cache_threshold # 0
        /\ lookup_read_cache_cell(bio[t].sector) # NULL

(* the cells the misses of the current run reserved, as <<sector, batch>> *)
RunCells == {<<g_run[i].sector, g_run[i].batch>> :
                i \in {j \in 1 .. Len(g_run) : g_run[j].reserved}}

(* every miss of the current run reserved a cell, all in one batch *)
RunInOneBatch ==
    \A i \in 1 .. Len(g_run) :
        g_run[i].reserved /\ g_run[i].batch = g_run[1].batch

(* C19 as stated: no cell of a run of more than read_cache_threshold
   consecutive 4 KiB read misses is promoted, wherever the batch boundaries
   fall *)
C19_RunNeverPromoted ==
    Len(g_run) > threshold => RunCells \cap g_promoted = {}

(* C19 as the code has it: when the misses of such a run all reserved their
   cells in one batch, the cells are cancelled as soon as the run exceeds the
   threshold and none of them is promoted *)
C19_RunInBatchNotPromoted ==
    (Len(g_run) > threshold /\ RunInOneBatch)
    => /\ RunCells \cap g_promoted = {}
       /\ (g_batch = g_run[1].batch /\ pc[Worker] # "reinit_read_cache_cells")
          => \A c \in rb_root :
                 (\E i \in 1 .. Len(g_run) : g_run[i].sector = cells[c].sector)
                 => cells[c].cancelled

(* both misses of a run longer than the threshold reserved a cell in one
   batch, and the worker has finished that batch *)
C19_Witness ==
    /\ Len(g_run) > threshold /\ RunInOneBatch
    /\ g_batch > g_run[1].batch
    /\ pc[Worker] = "idle"

(* the step is do_process_write entering prepare_overwrite's merge *)
MergeBegins(t) == pc[t] = "idle" /\ pc'[t] = "prepare_overwrite"

(* the step is the merge's read_mb failing *)
MergeFails(t) == pc[t] = "prepare_overwrite" /\ pc'[t] = "done"

(* C20: a write whose merge read fails in prepare_overwrite ends with the
   error and changes nothing: up to the read it has only taken the reference
   on the found segment, and the failing step only drops that reference and
   io_lock; the old metablock stays registered under its key with its
   is_dirty and data_bits, and nr_dirty_caches, the cursor, the segments'
   lengths and the RAM buffers are as before *)
C20_FailedMergeChangesNothing ==
    [][\A t \in Threads :
          /\ MergeBegins(t) =>
                /\ UNCHANGED <<mb, ht, nr_dirty_caches, cursor, current_seg, rambuf,
                               cells, g_content>>
                /\ seg' = inc_inflight(seg, mb_to_seg(res'[t].found_mb))
                /\ ht_lookup(ht, mb, BioKey(bio'[t])) = res'[t].found_mb
          /\ MergeFails(t) =>
                /\ result'[t].err = "EIO"
                /\ UNCHANGED <<mb, ht, nr_dirty_caches, cursor, current_seg, rambuf,
                               cells, g_content>>
                /\ seg' = [seg EXCEPT ![mb_to_seg(res[t].found_mb)].nr_inflight_ios
                                          = @ - 1]
                /\ ht_lookup(ht', mb', BioKey(bio[t])) = res[t].found_mb
                /\ io_lock = t /\ io_lock' = NULL]_vars

(* a write has failed in its merge: the old metablock is still the one the
   index returns and is still dirty, and no reference is left on its segment *)
C20_Witness ==
    \E t \in Threads :
        /\ pc[t] = "done" /\ bio[t].rw = "W" /\ result[t].err = "EIO"
        /\ ht_lookup(ht, mb, BioKey(bio[t])) = res[t].found_mb
        /\ mb[res[t].found_mb].is_dirty
        /\ mb[res[t].found_mb].data_bits # FullBits
        /\ seg[mb_to_seg(res[t].found_mb)].nr_inflight_ios = 0


(* ------------------------------ C21 ------------------------------------ *)
(* what the interface says of a message: it is rejected when its key names
   no option, when the option is static, or when the value is missing, not
   a number or outside the option's range *)
OptionNames == {OptNames[i] : i \in DOMAIN OptNames}
MsgRejected(argv) ==
    LET name == tolower(argv[1])
    IN  \/ name \notin OptionNames
        \/ dm_args[name].is_static
        \/ Len(argv) < 2
        \/ sscanf_u(argv[2]) = NULL
        \/ sscanf_u(argv[2]) < dm_args[name].min
        \/ sscanf_u(argv[2]) > dm_args[name].max

(* C21: a rejected key/value message returns an error and leaves every
   option at its previous value; an accepted one returns success and
   changes only the option it names, to the value it gives *)
C21_MessageChangesOnlyNamed ==
    [][(msgv' # msgv \/ Options' # Options) =>
          IF MsgRejected(g_msg')
          THEN msg_r' = "EINVAL" /\ Options' = Options
          ELSE /\ msg_r' = "ok"
               /\ Options' = [Options EXCEPT ![tolower(g_msg'[1])] =
                                                 sscanf_u(g_msg'[2])]]_vars

(* an out-of-range message was rejected after another option had been set *)
C21_Witness ==
    /\ msg_r = "EINVAL"
    /\ g_msg = <<"nr_max_batched_writeback", "128">>
    /\ opt.nr_max_batched_writeback = 1
    /\ opt.writeback_threshold = 1
    /\ opt.sync_data_interval = 128


(* ------------------------------ C22 ------------------------------------ *)
(* C22: a request whose scratch allocation from buf_8_pool failed ends with
   the out-of-memory error, on the write path and on the read paths *)
C22_AllocFailureIsNomem ==
    \A t \in Threads : g_nomem[t] /\ pc[t] = "done" => result[t].err = "ENOMEM"

(* a failed allocation ends the request with an error and changes neither
   metablocks, index, cursor, segment lengths, RAM buffers, dirty count nor
   read-cache cells *)
C22_AllocFailureChangesNothing ==
    [][\A t \in Threads : ~g_nomem[t] /\ g_nomem'[t] =>
          /\ result'[t].err \in {"ENOMEM", "EIO"}
          /\ UNCHANGED <<mb, ht, cursor, current_seg, rambuf, nr_dirty_caches,
                         cells, rb_root, cache_dev, backing>>
          /\ \A s \in SegIdx : seg'[s].length = seg[s].length
                                  /\ seg'[s].id = seg[s].id]_vars


(* ------------------------------ C23 ------------------------------------ *)
(* C23: a current segment that has not been written into has length 0, no
   dirty metablock and no metablock in the hash index, and the dirty-remaining
   BUG of __acquire_new_seg and the BUG_ON(is_dirty) of prepare_new_write_pos
   and inject_read_cache are never hit *)
C23_NewSegmentIsEmpty ==
    /\ bug \notin {"BUG __acquire_new_seg", "BUG_ON prepare_new_write_pos",
                   "BUG_ON inject_read_cache"}
    /\ cursor = start_idx(current_seg) =>
          /\ seg[current_seg].length = 0
          /\ \A i \in SegMbs(current_seg) : ~mb[i].is_dirty /\ ~InIndex(i)

(* a slot whose metablock had been written in an earlier round is current
   again and still empty *)
C23_Witness ==
    /\ seg[current_seg].id > NrSegments
    /\ seg[current_seg].length = 0
    /\ \E i \in SegMbs(current_seg) : mb[i].sector # NoSector
    /\ io_lock = NULL


(* ------------------------------ C24 ------------------------------------ *)
(* the reads that hold a reference on segment slot s: from the lookup to the
   completion in process_read or, for a bio remapped to the cache device, to
   its end_io *)
ReadHolders(s) ==
    {t \in Threads :
        /\ pc[t] \in {"read_hit", "wait_for_flushing", "read_cache_dev"}
        /\ mb_to_seg(res[t].found_mb) = s}

(* C24: a segment slot takes a new id (and is discarded from the index) only
   when its nr_inflight_ios is 0 and the segment that held the slot, id -
   nr_segments, has been written back; hence no read holding a reference to
   the slot overlaps that step, and the slot a read refers to keeps the id it
   had at the lookup *)
C24_NoReadAcrossReacquire ==
    /\ [][\A s \in SegIdx : seg'[s].id # seg[s].id =>
             /\ seg[s].nr_inflight_ios = 0
             /\ last_writeback_id >= SUB_ID(seg'[s].id, NrSegments)
             /\ ReadHolders(s) = {}
             /\ current_seg' = s]_vars
    /\ [](\A s \in SegIdx : \A t \in ReadHolders(s) : seg[s].id = g_readseg[t])

(* a re-acquisition is held up only by a read's reference: the old segment
   is written back and the acquirer sleeps at the first wait *)
C24_Witness ==
    \E p \in Procs, t \in Threads :
        /\ pc[p] = "acquire_new_seg"
        /\ t \in ReadHolders(get_segment_header_by_id(next_id))
        /\ pc[t] = "read_cache_dev"
        /\ last_writeback_id >= SUB_ID(next_id, NrSegments)


(* ------------------------------ C25 ------------------------------------ *)
(* C25: advance_cursor returns the prior cursor (0 for a cursor standing at
   nr_caches) and adds one to cursor, to the current segment's length and to
   its nr_inflight_ios; whenever io_lock is free the cursor stands at
   start_idx + length of the current segment and length is at most
   CACHES_PER_SEG, so the BUG_ON on the length is never hit, the wrap past the
   last segment included *)
C25_CursorMatchesLength ==
    /\ bug # "BUG_ON prepare_new_write_pos"
    /\ bug # "BUG_ON inject_read_cache"
    /\ io_lock = NULL =>
          /\ cursor = start_idx(current_seg) + seg[current_seg].length
          /\ seg[current_seg].length <= CachesPerSeg
    /\ advance_cursor_old = (IF cursor = nr_caches THEN 0 ELSE cursor)
    /\ advance_cursor(seg)[current_seg].length = seg[current_seg].length + 1
    /\ advance_cursor(seg)[current_seg].nr_inflight_ios =
           seg[current_seg].nr_inflight_ios + 1
    /\ \A i \in MbIdx : InIndex(i) /\ mb_to_seg(i) = current_seg
                           => i < cursor

(* the log has wrapped past the last segment: slot 0 is current again, full,
   and the lock is free *)
C25_Witness ==
    /\ io_lock = NULL
    /\ current_seg = 0
    /\ seg[current_seg].id > NrSegments
    /\ seg[current_seg].length = CachesPerSeg
    /\ cursor = CachesPerSeg


(* ------------------------------ C26 ------------------------------------ *)
(* C26: the write path enqueues a flush job only for a segment that holds
   data: a writer that has just queued the current segment (and is about to
   acquire the next RAM buffer) has queued a segment of length CACHES_PER_SEG,
   never one of length 0, the first write after flush_current_buffer or on a
   newly established segment included *)
C26_NoEmptyFlushJob ==
    \A t \in Threads :
        pc[t] = "acquire_new_rambuffer" => seg[current_seg].length = CachesPerSeg


(* ------------------------------ C27 ------------------------------------ *)
(* the step is a write leaving prepare_overwrite with success: after the
   merge, or straight from the lookup when no merge is needed *)
MergeSucceeds(t) ==
    /\ pc[t] = "prepare_overwrite"
    /\ pc'[t] \in {"queue_flush_job", "queue_barrier_io", "idle", "done"}
    /\ result'[t].err # "EIO"

OverwritesUnmerged(t) ==
    /\ pc[t] = "idle"
    /\ pc'[t] \in {"queue_flush_job", "queue_barrier_io", "done"}
    /\ ~write_around_mode
    /\ bio'[t].rw = "W"
    /\ result'[t].err # "ENOMEM"
    /\ ht_lookup(ht, mb, BioKey(bio'[t])) # NULL
    /\ ~is_on_buffer(ht_lookup(ht, mb, BioKey(bio'[t])))

(* the block the write has staged when the step ends: still in the write_io
   while the writer hands the segment off, on the RAM buffer otherwise *)
StagedData(t, k) ==
    IF pc'[t] = "queue_flush_job" THEN wio'[t].data
    ELSE rambuf'[current_rambuf].data[mb_idx_inseg(ht_lookup(ht', mb', k))]

StagedBits(t, k) ==
    IF pc'[t] = "queue_flush_job" THEN wio'[t].data_bits
    ELSE mb'[ht_lookup(ht', mb', k)].data_bits

OldMbRetired(t, old_mb) ==
    /\ ~mb'[old_mb].is_dirty
    /\ \A k \in Keys : ~InList(ht'[k], old_mb)
    /\ nr_dirty_caches' = nr_dirty_caches
                              - (IF mb[old_mb].is_dirty THEN 1 ELSE 0)
                              + (IF pc'[t] = "queue_flush_job" THEN 0 ELSE 1)

(* C27: when prepare_overwrite succeeds on an old metablock read as dirty
   with bits D, of a flushed segment, and a partial write with bits W, the
   staged block
   carries the new payload on W, the old payload of the cache device on
   D \ W, and data_bits W | D; in every successful case the old metablock ends
   clean and out of the index, and nr_dirty_caches goes down by one for it
   exactly if it was dirty *)
C27_OverwriteMerges ==
    [][\A t \in Threads :
          /\ MergeSucceeds(t) =>
                LET old_mb == res[t].found_mb
                    k == BioKey(bio[t])
                    W == wio[t].data_bits
                    D == dirtiness[t].data_bits
                IN  /\ dirtiness[t].is_dirty /\ W # FullBits
                    /\ last_flushed_id >= seg[mb_to_seg(old_mb)].id
                    /\ StagedBits(t, k) = W \cup D
                    /\ \A i \in W : StagedData(t, k)[i] = bio[t].val
                    /\ \A i \in D \ W : StagedData(t, k)[i] = cache_dev[old_mb][i]
                    /\ OldMbRetired(t, old_mb)
          /\ OverwritesUnmerged(t) =>
                LET k == BioKey(bio'[t])
                    old_mb == ht_lookup(ht, mb, k)
                IN  /\ StagedBits(t, k) = BioBits(bio'[t])
                    /\ \A i \in BioBits(bio'[t]) : StagedData(t, k)[i] = bio'[t].val
                    /\ OldMbRetired(t, old_mb)]_vars

(* a write of sectors 0..3 has been merged with a flushed full block: all
   eight sectors are valid, the first four new and the last four old *)
C27_Witness ==
    \E t \in Threads :
        /\ pc[t] = "queue_flush_job"
        /\ BioBits(bio[t]) = 0 .. 3
        /\ wio[t].data_bits = FullBits
        /\ \A i \in 0 .. 3 : wio[t].data[i] = bio[t].val
        /\ \A i \in 4 .. 7 : wio[t].data[i] \in 1 .. MaxBios
                                /\ wio[t].data[i] # bio[t].val


(* ------------------------------ C28 ------------------------------------ *)
(* the step is a write-back write whose lookup finds a metablock that is not
   on the RAM buffer *)
WriteFindsOld(t) ==
    /\ pc[t] = "idle"
    /\ pc'[t] \in {"prepare_overwrite", "queue_flush_job", "queue_barrier_io", "done"}
    /\ ~write_around_mode
    /\ bio'[t].rw = "W"
    /\ result'[t].err # "ENOMEM"
    /\ ht_lookup(ht, mb, BioKey(bio'[t])) # NULL
    /\ ~is_on_buffer(ht_lookup(ht, mb, BioKey(bio'[t])))

(* C28 as stated: a write waits in prepare_overwrite for the old segment's
   flush and the read of the old block only if it is partial and the old
   metablock has a dirty sector outside the write's mask *)
C28_MergeOnlyIfUncovered ==
    \A t \in Threads :
        pc[t] = "prepare_overwrite" =>
            /\ wio[t].data_bits # FullBits
            /\ dirtiness[t].is_dirty
            /\ dirtiness[t].data_bits \ wio[t].data_bits # {}

(* C28, amended: prepare_overwrite waits for the old segment's flush and
   reads the old block from the cache device if and only if the write is
   partial and the old metablock is dirty, whether or not the write's mask
   covers the old dirty sectors; otherwise the write goes on in the same
   step, with no wait and no read *)
C28_MergeIffPartialAndDirty ==
    [][\A t \in Threads :
          WriteFindsOld(t) =>
              LET old_mb == ht_lookup(ht, mb, BioKey(bio'[t]))
              IN  pc'[t] = "prepare_overwrite"
                      <=> (BioBits(bio'[t]) # FullBits /\ mb[old_mb].is_dirty)]_vars

(* a write of sectors 0..3 over a dirty block whose valid sectors are 0..3
   waits for the flush of the old segment *)
C28_Witness ==
    \E t \in Threads :
        /\ pc[t] = "prepare_overwrite"
        /\ dirtiness[t].data_bits \subseteq wio[t].data_bits
        /\ last_flushed_id < seg[mb_to_seg(res[t].found_mb)].id


(* ------------------------------ C29 ------------------------------------ *)
(* the step ends inject_read_cache for the cell at rc_i: the worker leaves
   the cell behind, either skipping it as cancelled or staging it *)
InjectEnds ==
    /\ pc[Worker] \in {"inject", "inject_stage"}
    /\ pc'[Worker] \in {"inject", "reinit_read_cache_cells"}
    /\ rc_i' # rc_i \/ pc'[Worker] # pc[Worker]

(* C29: inject_read_cache of a cell that is not cancelled advances the cursor
   by one, registers the metablock at the old cursor under the cell's sector,
   clean and with all sectors valid, and leaves nr_dirty_caches and the
   dirtiness of every other metablock as they were; for a cancelled cell it
   changes neither cursor, length, index nor RAM buffer *)
C29_InjectFrame ==
    [][InjectEnds =>
          IF cells[rc_i].cancelled
          THEN UNCHANGED <<cursor, seg, current_seg, ht, mb, rambuf, nr_dirty_caches>>
          ELSE /\ cursor' = cursor + 1
               /\ seg'[current_seg].length = seg[current_seg].length + 1
               /\ ht_lookup(ht', mb', cells[rc_i].sector) = cursor
               /\ ~mb'[cursor].is_dirty
               /\ mb'[cursor].data_bits = FullBits
               /\ rambuf'[current_rambuf].data[mb_idx_inseg(cursor)] = cells[rc_i].data
               /\ nr_dirty_caches' = nr_dirty_caches
               /\ \A i \in MbIdx \ {cursor} :
                      /\ mb'[i].is_dirty = mb[i].is_dirty
                      /\ mb'[i].data_bits = mb[i].data_bits]_vars

(* a cell has been injected while another metablock is dirty: the injected
   metablock is in the index, clean and fully valid *)
C29_Witness ==
    \E x \in g_promoted :
        /\ ht_lookup(ht, mb, x[1]) # NULL
        /\ ~mb[ht_lookup(ht, mb, x[1])].is_dirty
        /\ mb[ht_lookup(ht, mb, x[1])].data_bits = FullBits
        /\ nr_dirty_caches >= 1
        /\ \E i \in MbIdx : mb[i].is_dirty


(* ------------------------------ C30 ------------------------------------ *)
(* the reserved cells whose read from the backing device has not completed *)
PendingReads ==
    {t \in Threads : pc[t] = "read_backing" /\ pbd[t].type = "PBD_WILL_CACHE"}

(* the batch worker is queued or inside read_cache_proc *)
WorkerRuns == rc_pending \/ pc[Worker] # "idle"

(* C30 as stated, its counting part: ack_count always equals the cells'
   cursor plus the number of reserved cells whose read has not completed *)
C30_AckCountAlways == ack_count = rc_cursor + Cardinality(PendingReads)

(* C30, amended: the worker is dispatched once per batch, by the read
   completion that brings ack_count from 1 to 0, when all cells are reserved
   and no reserved read is pending; while it is queued or runs nothing is
   reserved and no read is pending, and it is not dispatched again before
   reinit_read_cache_cells has set ack_count and cursor back to R; ack_count
   equals cursor plus the pending reads except inside
   reinit_read_cache_cells, between the reset of ack_count (outside io_lock)
   and the reset of cursor (under it), where ack_count is R and cursor 0 *)
C30_OneDispatchPerBatch ==
    /\ [](IF pc[Worker] = "reinit_read_cache_cells"
          THEN ack_count = size /\ rc_cursor = 0
          ELSE ack_count = rc_cursor + Cardinality(PendingReads))
    /\ [](WorkerRuns => rc_cursor = 0 /\ PendingReads = {})
    /\ [](rc_pending => pc[Worker] = "idle" /\ ack_count = 0)
    /\ [][rc_pending' /\ ~rc_pending =>
             /\ ack_count = 1 /\ ack_count' = 0
             /\ pc[Worker] = "idle"
             /\ rc_cursor = 0
             /\ \E t \in PendingReads : PendingReads = {t} /\ pc'[t] = "done"]_vars
    /\ [][rc_cursor' < rc_cursor => ~WorkerRuns /\ ~WorkerRuns']_vars
    /\ [][pc[Worker] # "idle" /\ pc'[Worker] = "idle" =>
             ack_count' = size /\ rc_cursor' = size /\ ~rc_pending']_vars

(* a batch of two cells is complete: both are reserved and the second
   read's completion has just queued the worker *)
C30_Witness ==
    /\ rc_pending
    /\ size = 2
    /\ rb_root = {0, 1}
    /\ ack_count = 0


(* ------------------------------ C31 ------------------------------------ *)
(* how many times bio t stands in list sq *)
Occurs(sq, t) == Cardinality({i \in 1 .. Len(sq) : sq[i] = t})

(* the flush jobs that are queued to the flusher and not yet completed *)
QueuedJobs == {flusher_wq[i] : i \in 1 .. Len(flusher_wq)}

(* the places bio t is held as a barrier: wb->barrier_ios and the queued jobs *)
BarrierHolds(t) ==
    Occurs(barrier_ios, t)
        + Cardinality({r \in QueuedJobs : InList(job[r].barrier_ios, t)})

(* the step is a segment hand-off queueing the current RAM buffer's job *)
HandsOff == flusher_wq' = Append(flusher_wq, current_rambuf)

(* the step is the flusher completing the job at the head of its queue *)
JobCompletes == flusher_wq # <<>> /\ flusher_wq' = Tail(flusher_wq)

(* C31: a barrier bio (pure flush or FUA write) waits in exactly one place,
   wb->barrier_ios or one queued flush job, never in two and never in none; a
   hand-off moves the whole of wb->barrier_ios into the job it queues and
   leaves the list empty; a bio is completed only by the completion of the job
   that holds it, which completes all of its bios and no others *)
C31_BarrierInOneJob ==
    /\ [](\A t \in Threads :
             /\ BarrierHolds(t) = (IF pc[t] = "barrier_wait" THEN 1 ELSE 0)
             /\ \A r \in RambufIdx : Occurs(job[r].barrier_ios, t) <= 1)
    /\ [](\A r \in RambufIdx \ QueuedJobs : job[r].barrier_ios = <<>>)
    /\ [][HandsOff =>
             /\ job'[current_rambuf].barrier_ios = barrier_ios
             /\ barrier_ios' = <<>>
             /\ \A r \in RambufIdx \ {current_rambuf} : job'[r] = job[r]]_vars
    /\ [][~HandsOff => \A t \in Threads : InList(barrier_ios, t) => InList(barrier_ios', t)]_vars
    /\ [][\A t \in Threads :
             (pc[t] = "barrier_wait" /\ pc'[t] # "barrier_wait")
             => /\ JobCompletes
                /\ InList(job[Head(flusher_wq)].barrier_ios, t)
                /\ pc'[t] = "done"]_vars
    /\ [][JobCompletes =>
             \A t \in Threads :
                 InList(job[Head(flusher_wq)].barrier_ios, t) => pc'[t] = "done"]_vars

(* a hand-off has moved a flush bio and a FUA write into one job while the
   job of the segment before is still queued, and the list is empty *)
C31_Witness ==
    /\ Len(flusher_wq) = 2
    /\ barrier_ios = <<>>
    /\ Len(job[flusher_wq[2]].barrier_ios) = 2
    /\ \E t \in Threads : pc[t] = "barrier_wait" /\ bio[t].rw = "F"
    /\ \E t \in Threads : pc[t] = "barrier_wait" /\ bio[t].rw = "W" /\ bio[t].fua


(* ------------------------------ C32 ------------------------------------ *)
(* a hand-off is between queueing the old segment and establishing the new *)
InHandoff ==
    \E p \in Procs : pc[p] \in {"acquire_new_rambuffer", "acquire_new_seg"}

(* C32 as stated: in every reachable state last_flushed_id is below the
   current segment's id and at most NR_RAMBUF_POOL below it *)
C32_IdsAlways ==
    /\ last_flushed_id < seg[current_seg].id
    /\ seg[current_seg].id - last_flushed_id <= NR_RAMBUF_POOL

(* C32, amended: the current segment's id goes up by exactly 1 at every
   hand-off and changes at no other step; last_flushed_id never exceeds it and
   is never more than NR_RAMBUF_POOL below it; last_flushed_id is strictly
   below it except inside a hand-off, after queue_flush_job has queued the
   current segment and before __acquire_new_seg has established the next one,
   where the flusher may already have completed the current segment *)
C32_SegmentIds ==
    /\ [](/\ last_flushed_id <= seg[current_seg].id
          /\ seg[current_seg].id - last_flushed_id <= NR_RAMBUF_POOL
          /\ ~InHandoff => last_flushed_id < seg[current_seg].id)
    /\ [][IF \E p \in Procs : pc[p] = "acquire_new_seg" /\ pc'[p] # pc[p] /\ Alive'
          THEN seg'[current_seg'].id = seg[current_seg].id + 1
          ELSE seg'[current_seg'].id = seg[current_seg].id]_vars

(* the writer waits for the RAM buffer of the segment to come: both RAM
   buffers hold unflushed segments *)
C32_Witness ==
    /\ seg[current_seg].id - last_flushed_id = NR_RAMBUF_POOL
    /\ Len(flusher_wq) = NR_RAMBUF_POOL
    /\ \E p \in Procs : pc[p] = "acquire_new_rambuffer" /\ ~acquire_wait_flushing(next_id)


(* ------------------------------ C33 ------------------------------------ *)
(* where the block of metablock m is held: the RAM buffer of its queued
   flush job, the cache device once its segment is flushed, the current RAM
   buffer otherwise *)
Stored(m) ==
    LET s == mb_to_seg(m)
    IN  IF \E r \in QueuedJobs : job[r].seg = s
        THEN rambuf[CHOOSE r \in QueuedJobs : job[r].seg = s].data[mb_idx_inseg(m)]
        ELSE IF last_flushed_id >= seg[s].id THEN cache_dev[m]
        ELSE rambuf[current_rambuf].data[mb_idx_inseg(m)]

(* the sectors of the found block a read may take from the cache: those the
   dirtiness it read names while the block is dirty, all eight of a clean
   block that is valid throughout *)
Named(dirt) ==
    IF dirt.is_dirty \/ dirt.data_bits = FullBits THEN dirt.data_bits ELSE {}

(* the step completes a read hit of thread t without error *)
ReadHitEnds(t) ==
    /\ pc[t] \in {"read_hit", "wait_for_flushing", "read_cache_dev"}
    /\ pc'[t] = "done"
    /\ result'[t].err = "ok"

ReadDirtiness(t) ==
    IF pc[t] = "read_hit" THEN read_mb_dirtiness(mb, res[t].found_mb)
    ELSE dirtiness[t]

(* C33: the bytes a slot or cache block holds in sectors its metablock's
   data_bits does not name never reach a reader or a later write: a read hit
   returns the backing device's bytes in every sector the dirtiness it read
   does not name, a bio is remapped to the cache device only when all eight
   sectors are named, a merge names exactly the sectors of the write and of
   the old dirtiness, and in every indexed metablock each named sector holds
   the block's current content *)
C33_UnnamedSectorsNeverRead ==
    /\ [](~write_around_mode =>
             \A k \in Keys :
                 ht_lookup(ht, mb, k) # NULL =>
                     \A i \in mb[ht_lookup(ht, mb, k)].data_bits :
                         Stored(ht_lookup(ht, mb, k))[i] = g_content[k][i])
    /\ [](\A t \in Threads : pc[t] = "read_cache_dev" =>
             dirtiness[t].data_bits = FullBits)
    /\ [][\A t \in Threads :
             /\ ReadHitEnds(t) =>
                   \A i \in BioBits(bio[t]) \ Named(ReadDirtiness(t)) :
                       result'[t].payload[i - bio[t].offset]
                           = backing[BioKey(bio[t])][i]
             /\ MergeSucceeds(t) =>
                   StagedBits(t, BioKey(bio[t]))
                       = wio[t].data_bits \cup dirtiness[t].data_bits]_vars

(* a 4 KiB read has been served from a RAM-buffer slot that still holds, in
   sectors its metablock does not name, the bytes of the write the slot held
   in its earlier use; the read returned none of them *)
C33_Witness ==
    \E t \in Threads :
        /\ pc[t] = "done" /\ bio[t].rw = "R" /\ result[t].err = "ok"
        /\ BioBits(bio[t]) = FullBits
        /\ res[t] # NoRes
        /\ mb[res[t].found_mb].data_bits # FullBits
        /\ \E i \in Sectors \ mb[res[t].found_mb].data_bits :
              /\ Stored(res[t].found_mb)[i] > 0
              /\ result[t].payload[i] # Stored(res[t].found_mb)[i]


(* ------------------------------ C34 ------------------------------------ *)
(* C34: in write-around mode every dirty metablock is in the hash index: a
   metablock that process_write_wa has detached is not left dirty, so the
   writeback daemon finds no detached metablock whose old sectors it would
   copy over the data just written to the backing device *)
C34_NoDirtyDetached ==
    write_around_mode => \A i \in MbIdx : mb[i].is_dirty => InIndex(i)

(* the harm: once a write-around write has completed and no write is in
   flight, the backing device holds the written payload in the sectors the
   write covered *)
C34_BackingKeepsWrite ==
    (write_around_mode /\ \A t \in Threads : pc[t] # "wa_backing") =>
        \A k \in Keys :
            (ht_lookup(ht, mb, k) = NULL /\ g_lastbits[k] # {}
             /\ \A i \in MbIdx : mb[i].sector = k => ~mb[i].is_dirty)
            => \A i \in g_lastbits[k] : backing[k][i] = g_content[k][i]


(* ------------------------------ C35 ------------------------------------ *)
(* the writes that have left do_process_write and not yet run
   complete_process_write: io_lock is released, the reference is held *)
InWindow == {t \in Threads : pc[t] = "complete_process_write"}

(* C35: while a write is between the mutex_unlock of do_process_write and
   the dec_inflight_ios of complete_process_write, no step changes
   current_seg or the current segment's id, whatever other writers,
   flush_current_buffer and the read-cache worker do; each segment's
   nr_inflight_ios is the number of read references on it plus, for the
   current segment, the number of such writes, and complete_process_write
   takes one off the current segment's counter, which is at least 1 *)
C35_CurrentSegStable ==
    /\ [][InWindow # {} =>
             /\ current_seg' = current_seg
             /\ seg'[current_seg].id = seg[current_seg].id]_vars
    /\ [](\A s \in SegIdx :
             seg[s].nr_inflight_ios =
                 Cardinality(InflightHolders(s))
                     + (IF s = current_seg THEN Cardinality(InWindow) ELSE 0))
    /\ [][\A t \in InWindow : pc'[t] # pc[t] =>
             /\ seg[current_seg].nr_inflight_ios >= 1
             /\ seg' = dec_inflight_ios(seg, current_seg)]_vars

(* a write has released io_lock and still holds its reference; the
   read-cache worker, about to inject a cell, has taken io_lock and waits in
   queue_flush_job for that reference *)
C35_Witness ==
    /\ InWindow # {}
    /\ pc[Worker] = "queue_flush_job" /\ io_lock = Worker
    /\ ~queue_wait_inflight


(* ------------------------------------------------------------------------ *)
(* C37 *)
ReinitStep == pc[Worker] = "reinit_read_cache_cells" /\ pc'[Worker] = "idle"

Reserved(t) == pbd[t].type = "PBD_WILL_CACHE"

(* C37: cells->threshold is never 0, so the BUG_ON of reserve_read_cache_cell
   never fires, whatever read_cache_threshold the messages set, zero
   included; threshold changes only in the step of reinit_read_cache_cells
   that starts a new batch, and then to the read_cache_threshold of that
   moment; and a step taken while read_cache_threshold is 0 reserves no cell:
   the cursor does not go down, the tree gets no cell and no read becomes
   PBD_WILL_CACHE *)
C37_ThresholdNeverZero ==
    /\ [](threshold # 0 /\ bug # "BUG_ON reserve_read_cache_cell")
    /\ [][threshold' # threshold =>
              ReinitStep /\ threshold' = read_cache_threshold]_vars
    /\ [][read_cache_threshold = 0 =>
              /\ rc_cursor' >= rc_cursor
              /\ rb_root' \subseteq rb_root
              /\ \A t \in Threads : Reserved(t)' => Reserved(t)]_vars

(* a message has set read_cache_threshold to 0 while the batch still runs
   with the nonzero threshold it adopted at its start, and a 4 KiB read miss
   submitted since then is on its way to the backing device without a cell,
   although every cell of the batch is free *)
C37_Witness ==
    /\ read_cache_threshold = 0
    /\ threshold \in 1 .. MaxThreshold
    /\ g_batch = 1 /\ rc_cursor = size /\ rb_root = {}
    /\ \E t \in Threads : /\ pc[t] = "read_backing"
                          /\ io_fullsize(bio[t])
                          /\ ~Reserved(t)


(* ------------------------------------------------------------------------ *)
(* C38 *)
FreeCells == {c \in CellIdx : c < rc_cursor}

(* C38: a cell that is still free in the batch being filled, so that a later
   read miss may reserve it, has cancelled = FALSE: reinit_read_cache_cells
   leaves no cancelled flag set by the time it has reset the cursor *)
C38_FreeCellsNotCancelled == \A c \in FreeCells : ~cells[c].cancelled

(* C38, at the reservation itself: a read miss that reserves a cell finds the
   cell it takes with cancelled = FALSE *)
C38_ReservedCellNotCancelled ==
    [][rc_cursor' = rc_cursor - 1 => ~cells[rc_cursor - 1].cancelled]_vars


(* ------------------------------------------------------------------------ *)
(* C36 *)
Rest == {"idle", "done"}

Busy(p) == pc[p] \notin Rest

(* C36: with the flusher completing the queued jobs, the writeback daemon
   advancing, device I/O completing and started handlers running on, every
   bio that has been submitted leaves its handler (a write is staged or sent
   around, a read completes) and the read-cache worker finishes its batch:
   the bios of a behaviour being finitely many, from some state on no thread
   and no worker is inside a handler and io_lock is free. Besides, a process
   that is outside its handler never holds io_lock, and no BUG is hit *)
C36_NoDeadlock ==
    /\ <>[](io_lock = NULL /\ \A p \in Threads \cup {Worker} : ~Busy(p))
    /\ [](io_lock # NULL => Busy(io_lock))
    /\ [](bug = "none")

(* a write holds io_lock in its hand-off and waits for the flusher, while the
   read-cache worker has a cell to inject and needs io_lock *)
C36_Witness ==
    \E t \in Threads :
        /\ pc[t] = "acquire_new_rambuffer" /\ io_lock = t
        /\ ~acquire_wait_flushing(next_id)
        /\ pc[Worker] = "inject" /\ ~cells[rc_i].cancelled

=============================================================================
